---- MODULE Spec2Model ----
(***************************************************************************)
(* HBnB REST API (database-backed parts 3-5): users, places, reviews,      *)
(* JWT tokens, and the ownership / admin rules of the API layer.           *)
(*                                                                         *)
(* Text values are sequences of one-character strings so that strip() and  *)
(* lower() are computed.  JSON payloads are functions whose domain is the  *)
(* set of keys present ('key' in data  ==  "key" \in DOMAIN data).         *)
(* Ids are natural numbers handed out in creation order (uuid4 in the      *)
(* code: always fresh).  A request runs in its own application context:    *)
(* a handler that leaves without db.session.commit() leaves the database   *)
(* as it was (the session is removed at teardown).                         *)
(***************************************************************************)
EXTENDS Integers, Sequences, FiniteSets, TLC

\* ------------------------------------------------------------------ bounds
MaxUsers   == 2
MaxPlaces  == 1
MaxReviews == 2
MaxAmenities == 2
MaxClock == 2
MaxObjects == 2
MaxRequests == 2

\* ------------------------------------------------------- program constants
MinPasswordLen == 6
MaxNameLen     == 50
MaxTitleLen    == 100
MaxTextLen     == 1000
MinRating      == 1
MaxRating      == 5
MaxLatitude    == 90
MaxLongitude   == 180
MaxAmenityNameLen == 50
BcryptMaxBytes == 72

\* -------------------------------------------------------------------- text
LowerLetters == <<"a","b","c","d","e","f","g","h","i","j","k","l","m",
                  "n","o","p","q","r","s","t","u","v","w","x","y","z">>
UpperLetters == <<"A","B","C","D","E","F","G","H","I","J","K","L","M",
                  "N","O","P","Q","R","S","T","U","V","W","X","Y","Z">>
Digits == {"0","1","2","3","4","5","6","7","8","9"}

Range(f) == {f[i] : i \in DOMAIN f}
LowerSet == Range(LowerLetters)
UpperSet == Range(UpperLetters)
IsLetter(c) == c \in LowerSet \/ c \in UpperSet

\* str.lower() on one character
LowerChar(c) ==
    IF c \in UpperSet
    THEN LowerLetters[CHOOSE i \in DOMAIN UpperLetters : UpperLetters[i] = c]
    ELSE c

\* str.lower()
Lower(s) == [i \in DOMAIN s |-> LowerChar(s[i])]

\* str.strip(): drop leading and trailing blanks
Strip(s) ==
    LET idx == {i \in DOMAIN s : s[i] # " "}
    IN  IF idx = {} THEN <<>>
        ELSE LET lo == CHOOSE i \in idx : \A j \in idx : i <= j
                 hi == CHOOSE i \in idx : \A j \in idx : j <= i
             IN  SubSeq(s, lo, hi)

\* re.match(r'^[a-zA-Z0-9._%+-]+@[a-zA-Z0-9.-]+\.[a-zA-Z]{2,}$', email)
LocalChar(c)  == IsLetter(c) \/ c \in Digits \/ c \in {".", "_", "%", "+", "-"}
DomainChar(c) == IsLetter(c) \/ c \in Digits \/ c \in {".", "-"}
EmailPatternMatches(e) ==
    \E i \in DOMAIN e : \E j \in DOMAIN e :
        /\ e[i] = "@"
        /\ i > 1
        /\ \A k \in 1..(i-1) : LocalChar(e[k])
        /\ j > i + 1
        /\ e[j] = "."
        /\ \A k \in (i+1)..(j-1) : DomainChar(e[k])
        /\ Len(e) - j >= 2
        /\ \A k \in (j+1)..Len(e) : IsLetter(e[k])

\* ------------------------------------------------------------------- state
VARIABLES
    users,      \* users table:   id -> [first_name, last_name, email, password, is_admin]
    places,     \* places table:  id -> [title, description, price, latitude, longitude, owner_id]
    reviews,    \* reviews table: id -> [text, rating, user_id, place_id]
    reviewSeq,  \* number of review rows ever inserted (ids are never reused)
    amenities,  \* amenities table: id -> [name]
    tokens,     \* access tokens issued so far: [identity, is_admin]
    deleted,    \* ids of the reviews whose DELETE answered 200
    last,       \* the last request and its response (author: the writer of the
                \* review a DELETE named, 0 otherwise)
    clock,      \* datetime.now(), read by the in-memory models of part2
    repo,       \* an InMemoryRepository and the objects handed to it:
                \* [part, objects: reference -> attributes, storage: key -> reference,
                \*  added: key -> the reference last added and not deleted since]
    inflight    \* POST /reviews requests being served, in order of arrival:
                \* [tok, data, pc, status]

vars == <<users, places, reviews, reviewSeq, amenities, tokens, deleted, last, clock, repo,
          inflight>>

\* An HTTP result: status, error/message text, and the tables after the request
Result(st, m, u, p, r) == [status |-> st, msg |-> m, users |-> u, places |-> p, reviews |-> r]
\* a response that leaves the database alone
Reject(st, m) == Result(st, m, users, places, reviews)

NoPayload == <<>>
Has(data, k) == k \in DOMAIN data

\* flask-restx @api.expect(model, validate=True): every required key is present
ValidationFailed == "Input payload validation failed"
PayloadValid(data, required) == required \subseteq DOMAIN data

\* ------------------------------------------------------------------- User
user_model == {"first_name", "last_name", "email", "password"}

\* the bytes of a password that bcrypt hashes: the first BcryptMaxBytes
BcryptInput(p) == IF Len(p) > BcryptMaxBytes THEN SubSeq(p, 1, BcryptMaxBytes) ELSE p

\* Fault variant: the password is stored as it was given
StorePlainPassword(p) == [hashed |-> FALSE, text |-> p]

\* bcrypt.generate_password_hash(password): a salted hash, which verifies
\* exactly the passwords with the same hashed bytes
GeneratePasswordHash(p) == [hashed |-> TRUE, text |-> BcryptInput(p)]
\* a value written to the password column as it is
RawPassword(p) == [hashed |-> FALSE, text |-> p]

\* User._validate_name: ok, or the ValueError
ValidateNameOk(name) ==
    /\ name # <<>>
    /\ Len(Strip(name)) # 0
    /\ Len(Strip(name)) <= MaxNameLen
ValidateName(name) == Strip(name)

\* User._validate_email
ValidateEmailOk(email) == email # <<>> /\ EmailPatternMatches(Lower(Strip(email)))
ValidateEmail(email) == Lower(Strip(email))

\* User.hash_password: the checks before hashing
HashPasswordOk(p) == p # <<>> /\ Len(p) >= MinPasswordLen

\* User.verify_password: bcrypt.check_password_hash(self.password, password);
\* "error" when the stored value is not a bcrypt hash (ValueError: Invalid salt)
VerifyPassword(stored, p) ==
    IF ~stored.hashed THEN "error"
    ELSE IF stored.text = BcryptInput(p) THEN "match" ELSE "mismatch"

\* UserRepository.get_user_by_email: filter_by(email=email).first()
RepoGetUserByEmail(us, email) == {i \in DOMAIN us : us[i].email = email}

\* HBnBFacade.get_user_by_email
FacadeGetUserByEmail(us, email) == RepoGetUserByEmail(us, Lower(Strip(email)))

\* users.email is declared unique=True: commit fails when two rows share it
EmailUniqueViolated(us) ==
    \E i \in DOMAIN us : \E j \in DOMAIN us : i # j /\ us[i].email = us[j].email

NewUserId(us) == Cardinality(DOMAIN us) + 1
Extend(f, k, v) == [x \in DOMAIN f \cup {k} |-> IF x = k THEN v ELSE f[x]]

\* HBnBFacade.create_user: [err, users]; err = "" on success,
\* "integrity" when the commit is refused
FacadeCreateUser(us, data) ==
    LET email == IF Has(data, "email") THEN Lower(Strip(data.email)) ELSE <<>>
    IN  IF RepoGetUserByEmail(us, email) # {}
          THEN [err |-> "Email already registered", users |-> us]
        ELSE IF ~Has(data, "first_name") \/ ~ValidateNameOk(data.first_name)
          THEN [err |-> "First name invalid", users |-> us]
        ELSE IF ~Has(data, "last_name") \/ ~ValidateNameOk(data.last_name)
          THEN [err |-> "Last name invalid", users |-> us]
        ELSE IF ~Has(data, "email") \/ ~ValidateEmailOk(data.email)
          THEN [err |-> "Invalid email format", users |-> us]
        ELSE IF ~Has(data, "password") \/ ~HashPasswordOk(data.password)
          THEN [err |-> "Password must be at least 6 characters long", users |-> us]
        ELSE LET u == [first_name |-> ValidateName(data.first_name),
                       last_name  |-> ValidateName(data.last_name),
                       email      |-> ValidateEmail(data.email),
                       password   |-> GeneratePasswordHash(data.password),
                       is_admin   |-> IF Has(data, "is_admin") THEN data.is_admin ELSE FALSE]
                 nu == Extend(us, NewUserId(us), u)
             IN  IF EmailUniqueViolated(nu)
                   THEN [err |-> "integrity", users |-> us]
                   ELSE [err |-> "", users |-> nu]

\* SQLAlchemyRepository.update(obj_id, data) on the users table:
\* setattr(obj, key, value) for every key of data, then commit
RepoUpdateUser(u, data) ==
    [first_name |-> IF Has(data, "first_name") THEN data.first_name ELSE u.first_name,
     last_name  |-> IF Has(data, "last_name")  THEN data.last_name  ELSE u.last_name,
     email      |-> IF Has(data, "email")      THEN data.email      ELSE u.email,
     password   |-> IF Has(data, "password")   THEN RawPassword(data.password) ELSE u.password,
     is_admin   |-> IF Has(data, "is_admin")   THEN data.is_admin   ELSE u.is_admin]

\* SQLAlchemyRepository.update on the users table: setattr for every key of
\* data, the primary key 'id' included, then commit; the row is stored under
\* the id it carries (SQLite, the configured database, leaves the rows that
\* refer to the old id as they are)
SQLAlchemyUpdateUser(us, user_id, data) ==
    IF ~Has(data, "id") THEN [us EXCEPT ![user_id] = RepoUpdateUser(us[user_id], data)]
    ELSE [k \in (DOMAIN us \ {user_id}) \cup {data.id} |->
              IF k = data.id THEN RepoUpdateUser(us[user_id], data) ELSE us[k]]

\* users.id is the primary key: commit fails when the new id is another row's
PrimaryKeyViolated(us, user_id, data) ==
    Has(data, "id") /\ data.id # user_id /\ data.id \in DOMAIN us

\* HBnBFacade.update_user: [err, users]; err = "none" when the user is
\* unknown (returns None), "integrity" when the commit is refused
FacadeUpdateUser(us, user_id, data) ==
    IF user_id \notin DOMAIN us
      THEN [err |-> "none", users |-> us]
    ELSE IF Has(data, "first_name") /\ ~ValidateNameOk(data.first_name)
      THEN [err |-> "First name invalid", users |-> us]
    ELSE IF Has(data, "last_name") /\ ~ValidateNameOk(data.last_name)
      THEN [err |-> "Last name invalid", users |-> us]
    ELSE IF Has(data, "email") /\ ~ValidateEmailOk(data.email)
      THEN [err |-> "Invalid email format", users |-> us]
    ELSE IF Has(data, "email")
            /\ RepoGetUserByEmail(us, ValidateEmail(data.email)) \ {user_id} # {}
      THEN [err |-> "Email already registered", users |-> us]
    ELSE IF Has(data, "password") /\ ~HashPasswordOk(data.password)
      THEN [err |-> "Password must be at least 6 characters long", users |-> us]
    ELSE LET nu == SQLAlchemyUpdateUser(us, user_id, data)
         IN  IF PrimaryKeyViolated(us, user_id, data) \/ EmailUniqueViolated(nu)
               THEN [err |-> "integrity", users |-> us]
               ELSE [err |-> "", users |-> nu]

\* ---------------------------------------------------------------- users API
\* Fault variant: the admin gate of UserList.post left out
UserPostOpen(tok) == FALSE

\* UserList.post: the admin gate
UserPostForbidden(tok) == ~tok.is_admin

\* UserList.post
UserList_postOn(us, tok, data) ==
    IF ~PayloadValid(data, user_model) THEN Result(400, ValidationFailed, us, places, reviews)
    ELSE IF UserPostForbidden(tok)
      THEN Result(403, "Admin privileges required", us, places, reviews)
    ELSE IF data.password = <<>> THEN Result(400, "Password is required", us, places, reviews)
    ELSE IF Len(data.password) < MinPasswordLen
      THEN Result(400, "Password must be at least 6 characters long", us, places, reviews)
    ELSE IF FacadeGetUserByEmail(us, data.email) # {}
      THEN Result(400, "Email already registered", us, places, reviews)
    ELSE LET c == FacadeCreateUser(us, data)
         IN  IF c.err = "" THEN Result(201, "", c.users, places, reviews)
             ELSE IF c.err = "integrity"
               THEN Result(500, "Internal Server Error", us, places, reviews)
             ELSE Result(400, c.err, us, places, reviews)

\* UserList.post on the users table of the current state
UserList_post(tok, data) == UserList_postOn(users, tok, data)

\* Fault variant: the authorization test of UserResource.put left out
UserPutOpen(tok, user_id) == FALSE

\* UserResource.put: the authorization test
UserPutForbidden(tok, user_id) == ~tok.is_admin /\ tok.identity # user_id

\* Fault variant: regular users may send email and password
CredentialsChangeOpen(tok, data) == FALSE

\* UserResource.put: regular users cannot modify email or password
CredentialsChangeForbidden(tok, data) ==
    ~tok.is_admin /\ (Has(data, "email") \/ Has(data, "password"))

\* UserResource.put
UserResource_putOn(us, tok, user_id, data) ==
    IF ~PayloadValid(data, user_model) THEN Result(400, ValidationFailed, us, places, reviews)
    ELSE IF UserPutForbidden(tok, user_id)
      THEN Result(403, "Unauthorized action", us, places, reviews)
    ELSE IF CredentialsChangeForbidden(tok, data)
      THEN Result(400, "You cannot modify email or password", us, places, reviews)
    ELSE IF tok.is_admin /\ Has(data, "email")
            /\ FacadeGetUserByEmail(us, data.email) \ {user_id} # {}
      THEN Result(400, "Email already in use", us, places, reviews)
    ELSE LET c == FacadeUpdateUser(us, user_id, data)
         IN  IF c.err = "" THEN Result(200, "", c.users, places, reviews)
             ELSE IF c.err = "none" THEN Result(404, "User not found", us, places, reviews)
             ELSE IF c.err = "integrity"
               THEN Result(500, "Internal Server Error", us, places, reviews)
             ELSE Result(400, c.err, us, places, reviews)

\* UserResource.put on the users table of the current state
UserResource_put(tok, user_id, data) == UserResource_putOn(users, tok, user_id, data)

\* Fault variant: to_dict returns the password column with the others
UserToDictWithPassword(us, user_id) ==
    [id |-> user_id, first_name |-> us[user_id].first_name,
     last_name |-> us[user_id].last_name, email |-> us[user_id].email,
     is_admin |-> us[user_id].is_admin, password |-> us[user_id].password]

\* User.to_dict() of row user_id (created_at and updated_at are not modelled)
UserToDict(us, user_id) ==
    [id |-> user_id, first_name |-> us[user_id].first_name,
     last_name |-> us[user_id].last_name, email |-> us[user_id].email,
     is_admin |-> us[user_id].is_admin]

\* the body of an answer that carries no user
ErrorBody(r) ==
    IF r.status = 500 \/ r.msg = ValidationFailed THEN [message |-> r.msg]
    ELSE [error |-> r.msg]

\* UserList.get: the list of User.to_dict() of every row
UserList_getOn(us) == [status |-> 200, body |-> [i \in DOMAIN us |-> UserToDict(us, i)]]

\* UserResource.get: User.to_dict() of the row, or 404
UserResource_getOn(us, user_id) ==
    IF user_id \in DOMAIN us
    THEN [status |-> 200, body |-> UserToDict(us, user_id)]
    ELSE [status |-> 404, body |-> [error |-> "User not found"]]

UserResource_get(user_id) == UserResource_getOn(users, user_id)

\* the answer of POST /users: new_user.to_dict() with 201, or the error
UserList_postAnswer(us, tok, data) ==
    LET r == UserList_postOn(us, tok, data)
    IN  [status |-> r.status,
         body |-> IF r.status = 201 THEN UserToDict(r.users, NewUserId(us)) ELSE ErrorBody(r)]

\* the answer of PUT /users/<id>: updated_user.to_dict() with 200, or the error
UserResource_putAnswer(us, tok, user_id, data) ==
    LET r == UserResource_putOn(us, tok, user_id, data)
    IN  [status |-> r.status,
         body |-> IF r.status = 200 THEN UserToDict(r.users, user_id) ELSE ErrorBody(r)]

\* ---------------------------------------------------------------- auth API
\* Login.post: [status, msg, token]
Login_post(email, password) ==
    LET found == FacadeGetUserByEmail(users, email)
    IN  IF found = {} THEN [status |-> 401, msg |-> "Invalid credentials", token |-> {}]
        ELSE LET uid == CHOOSE i \in found : TRUE
                 v   == VerifyPassword(users[uid].password, password)
             IN  IF v = "error"
                   THEN [status |-> 500, msg |-> "Internal Server Error", token |-> {}]
                 ELSE IF v = "mismatch"
                   THEN [status |-> 401, msg |-> "Invalid credentials", token |-> {}]
                 ELSE [status |-> 200, msg |-> "",
                       token |-> {[identity |-> uid, is_admin |-> users[uid].is_admin]}]

\* ------------------------------------------------------------------- Place
place_model == {"title", "description", "price", "latitude", "longitude", "owner_id"}

\* Place._validate_title / _validate_price / _validate_latitude / _validate_longitude
ValidateTitleOk(title) ==
    title # <<>> /\ Strip(title) # <<>> /\ Len(Strip(title)) <= MaxTitleLen
ValidateTitle(title) == Strip(title)
ValidatePriceOk(price) == price > 0
ValidateLatitudeOk(lat) == lat >= -MaxLatitude /\ lat <= MaxLatitude
ValidateLongitudeOk(lon) == lon >= -MaxLongitude /\ lon <= MaxLongitude

NewPlaceId(ps) == Cardinality(DOMAIN ps) + 1

\* HBnBFacade.create_place: [err, places]
FacadeCreatePlace(us, ps, data) ==
    IF ~Has(data, "owner_id") \/ data.owner_id \notin DOMAIN us
      THEN [err |-> "Owner not found", places |-> ps]
    ELSE IF ~Has(data, "title") \/ ~ValidateTitleOk(data.title)
      THEN [err |-> "Title invalid", places |-> ps]
    ELSE IF ~Has(data, "price") \/ ~ValidatePriceOk(data.price)
      THEN [err |-> "Price must be a positive value", places |-> ps]
    ELSE IF ~Has(data, "latitude") \/ ~ValidateLatitudeOk(data.latitude)
      THEN [err |-> "Latitude must be between -90.0 and 90.0", places |-> ps]
    ELSE IF ~Has(data, "longitude") \/ ~ValidateLongitudeOk(data.longitude)
      THEN [err |-> "Longitude must be between -180.0 and 180.0", places |-> ps]
    ELSE [err |-> "",
          places |-> Extend(ps, NewPlaceId(ps),
                        [title       |-> ValidateTitle(data.title),
                         description |-> IF Has(data, "description")
                                         THEN data.description ELSE <<>>,
                         price       |-> data.price,
                         latitude    |-> data.latitude,
                         longitude   |-> data.longitude,
                         owner_id    |-> data.owner_id])]

\* The attribute assignments of HBnBFacade.update_place (lines 457-470)
PlaceAssign(p, data) ==
    [title       |-> IF Has(data, "title") THEN ValidateTitle(data.title) ELSE p.title,
     description |-> IF Has(data, "description") THEN data.description ELSE p.description,
     price       |-> IF Has(data, "price") THEN data.price ELSE p.price,
     latitude    |-> IF Has(data, "latitude") THEN data.latitude ELSE p.latitude,
     longitude   |-> IF Has(data, "longitude") THEN data.longitude ELSE p.longitude,
     owner_id    |-> p.owner_id]

\* SQLAlchemyRepository.update(obj_id, data) when data is a model object, as
\* update_place / update_review pass it: data.items() raises AttributeError,
\* nothing is committed.  TRUE = the call returns normally.
RepoUpdateAcceptsObject == FALSE

\* HBnBFacade.update_place: [err, places]; err = "crash" for the exception
\* that is not a ValueError
FacadeUpdatePlace(ps, place_id, data) ==
    IF place_id \notin DOMAIN ps
      THEN [err |-> "none", places |-> ps]
    ELSE IF Has(data, "title") /\ ~ValidateTitleOk(data.title)
      THEN [err |-> "Title invalid", places |-> ps]
    ELSE IF Has(data, "price") /\ ~ValidatePriceOk(data.price)
      THEN [err |-> "Price must be a positive value", places |-> ps]
    ELSE IF Has(data, "latitude") /\ ~ValidateLatitudeOk(data.latitude)
      THEN [err |-> "Latitude must be between -90.0 and 90.0", places |-> ps]
    ELSE IF Has(data, "longitude") /\ ~ValidateLongitudeOk(data.longitude)
      THEN [err |-> "Longitude must be between -180.0 and 180.0", places |-> ps]
    ELSE IF ~RepoUpdateAcceptsObject
      THEN [err |-> "crash", places |-> ps]
    ELSE [err |-> "", places |-> [ps EXCEPT ![place_id] = PlaceAssign(ps[place_id], data)]]

\* --------------------------------------------------------------- places API
\* Fault variant: the owner_id of the request body is kept
PlaceOwnerFromPayload(tok, data) == data

\* PlaceList.post: place_data['owner_id'] = current_user
PlaceOwnerFromToken(tok, data) == [data EXCEPT !["owner_id"] = tok.identity]

\* PlaceList.post
PlaceList_post(tok, data) ==
    IF ~PayloadValid(data, place_model) THEN Reject(400, ValidationFailed)
    ELSE LET c == FacadeCreatePlace(users, places, PlaceOwnerFromToken(tok, data))
         IN  IF c.err = "" THEN Result(201, "", users, c.places, reviews)
             ELSE Reject(400, c.err)

\* Fault variant: the ownership test of PlaceResource.put left out
PlacePutOpen(tok, place) == FALSE

\* PlaceResource.put: the ownership test with the admin bypass
PlacePutForbidden(tok, place) == ~tok.is_admin /\ place.owner_id # tok.identity

\* del place_data['owner_id']
Without(data, k) == [x \in DOMAIN data \ {k} |-> data[x]]

\* Fault variant: the update takes the owner_id of the request body
PlaceResource_putTakingOwner(tok, place_id, data) ==
    IF place_id \notin DOMAIN places THEN Reject(404, "Place not found")
    ELSE IF ~Has(data, "owner_id") THEN Reject(400, "owner_id missing")
    ELSE Result(200, "", users, [places EXCEPT ![place_id].owner_id = data.owner_id], reviews)

\* PlaceResource.put
PlaceResource_put(tok, place_id, data) ==
    IF place_id \notin DOMAIN places THEN Reject(404, "Place not found")
    ELSE IF PlacePutForbidden(tok, places[place_id])
      THEN Reject(403, "Unauthorized action")
    ELSE LET c == FacadeUpdatePlace(places, place_id, Without(data, "owner_id"))
         IN  IF c.err = "" THEN Result(200, "", users, c.places, reviews)
             ELSE IF c.err = "crash" THEN Reject(500, "Internal Server Error")
             ELSE Reject(400, c.err)

\* PlaceResource.get: Place.to_dict() of the row, or 404
PlaceResource_get(place_id) ==
    IF place_id \in DOMAIN places
    THEN [status |-> 200, body |-> places[place_id]]
    ELSE [status |-> 404, body |-> [error |-> "Place not found"]]

\* ------------------------------------------------------------------ Review
review_model == {"text", "rating", "user_id", "place_id"}

\* Review._validate_text / _validate_rating
ValidateTextOk(text) ==
    text # <<>> /\ Strip(text) # <<>> /\ Len(Strip(text)) <= MaxTextLen
ValidateText(text) == Strip(text)
ValidateRatingOk(rating) == rating >= MinRating /\ rating <= MaxRating

\* uuid4 primary key of a new review: never one that was used before
NewReviewId(seq, rs) == seq + 1

\* ReviewRepository.get_by_place: filter_by(place_id=place_id).all()
GetReviewsByPlace(rs, place_id) == {i \in DOMAIN rs : rs[i].place_id = place_id}

\* HBnBFacade.create_review: [err, reviews]
FacadeCreateReview(us, ps, rs, seq, data) ==
    IF ~Has(data, "user_id") \/ data.user_id \notin DOMAIN us
      THEN [err |-> "User not found", reviews |-> rs]
    ELSE IF ~Has(data, "place_id") \/ data.place_id \notin DOMAIN ps
      THEN [err |-> "Place not found", reviews |-> rs]
    ELSE IF ~Has(data, "text") \/ ~ValidateTextOk(data.text)
      THEN [err |-> "Review text invalid", reviews |-> rs]
    ELSE IF ~Has(data, "rating") \/ ~ValidateRatingOk(data.rating)
      THEN [err |-> "Rating must be between 1 and 5", reviews |-> rs]
    ELSE [err |-> "",
          reviews |-> Extend(rs, NewReviewId(seq, rs),
                         [text     |-> ValidateText(data.text),
                          rating   |-> data.rating,
                          user_id  |-> data.user_id,
                          place_id |-> data.place_id])]

\* The attribute assignments of HBnBFacade.update_review (lines 627-632)
ReviewAssign(r, data) ==
    [text     |-> IF Has(data, "text") THEN ValidateText(data.text) ELSE r.text,
     rating   |-> IF Has(data, "rating") THEN data.rating ELSE r.rating,
     user_id  |-> r.user_id,
     place_id |-> r.place_id]

\* HBnBFacade.update_review: [err, reviews]
FacadeUpdateReview(rs, review_id, data) ==
    IF review_id \notin DOMAIN rs
      THEN [err |-> "none", reviews |-> rs]
    ELSE IF Has(data, "text") /\ ~ValidateTextOk(data.text)
      THEN [err |-> "Review text invalid", reviews |-> rs]
    ELSE IF Has(data, "rating") /\ ~ValidateRatingOk(data.rating)
      THEN [err |-> "Rating must be between 1 and 5", reviews |-> rs]
    ELSE IF ~RepoUpdateAcceptsObject
      THEN [err |-> "crash", reviews |-> rs]
    ELSE [err |-> "", reviews |-> [rs EXCEPT ![review_id] = ReviewAssign(rs[review_id], data)]]

\* Fault variant: delete_review reports success and leaves the row
FacadeDeleteReviewKeepsRow(rs, review_id) == [ok |-> review_id \in DOMAIN rs, reviews |-> rs]

\* SQLAlchemyRepository.delete via HBnBFacade.delete_review: [ok, reviews]
FacadeDeleteReview(rs, review_id) ==
    IF review_id \in DOMAIN rs
    THEN [ok |-> TRUE,  reviews |-> [i \in DOMAIN rs \ {review_id} |-> rs[i]]]
    ELSE [ok |-> FALSE, reviews |-> rs]

\* -------------------------------------------------------------- reviews API
\* Fault variant: VALIDATION 1 left out
IsOwnPlaceNever(tok, place) == FALSE

\* ReviewList.post: VALIDATION 1, the reviewer owns the place
IsOwnPlace(tok, place) == place.owner_id = tok.identity

\* Fault variant: VALIDATION 2 left out
AlreadyReviewedNever(tok, rs, place_id) == FALSE

\* ReviewList.post: VALIDATION 2, the reviewer already reviewed the place
AlreadyReviewed(tok, rs, place_id) ==
    \E i \in GetReviewsByPlace(rs, place_id) : rs[i].user_id = tok.identity

\* ReviewList.post
ReviewList_post(tok, data) ==
    IF ~PayloadValid(data, review_model) THEN Reject(400, ValidationFailed)
    ELSE IF data.place_id \notin DOMAIN places THEN Reject(404, "Place not found")
    ELSE IF IsOwnPlace(tok, places[data.place_id])
      THEN Reject(400, "You cannot review your own place")
    ELSE IF AlreadyReviewed(tok, reviews, data.place_id)
      THEN Reject(400, "You have already reviewed this place")
    ELSE LET c == FacadeCreateReview(users, places, reviews, reviewSeq,
                                     [data EXCEPT !["user_id"] = tok.identity])
         IN  IF c.err = "" THEN Result(201, "", users, places, c.reviews)
             ELSE Reject(400, c.err)

\* Fault variant: the authorship test left out
ReviewChangeOpen(tok, review) == FALSE

\* ReviewResource.put / delete: the authorship test with the admin bypass
ReviewChangeForbidden(tok, review) == ~tok.is_admin /\ review.user_id # tok.identity

\* ReviewResource.put
ReviewResource_put(tok, review_id, data) ==
    IF review_id \notin DOMAIN reviews THEN Reject(404, "Review not found")
    ELSE IF ReviewChangeForbidden(tok, reviews[review_id])
      THEN Reject(403, "Unauthorized action")
    ELSE LET c == FacadeUpdateReview(reviews, review_id,
                                     Without(Without(data, "user_id"), "place_id"))
         IN  IF c.err = "" THEN Result(200, "", users, places, c.reviews)
             ELSE IF c.err = "crash" THEN Reject(500, "Internal Server Error")
             ELSE Reject(400, c.err)

\* ReviewResource.delete
ReviewResource_delete(tok, review_id) ==
    IF review_id \notin DOMAIN reviews THEN Reject(404, "Review not found")
    ELSE IF ReviewChangeForbidden(tok, reviews[review_id])
      THEN Reject(403, "Unauthorized action")
    ELSE LET c == FacadeDeleteReview(reviews, review_id)
         IN  IF c.ok THEN Result(200, "Review deleted successfully", users, places, c.reviews)
             ELSE Reject(400, "Failed to delete review")

\* ReviewResource.get: Review.to_dict() of the row, or 404
ReviewResource_get(review_id) ==
    IF review_id \in DOMAIN reviews
    THEN [status |-> 200, body |-> reviews[review_id]]
    ELSE [status |-> 404, body |-> [error |-> "Review not found"]]

\* ReviewList.get: the ids of the rows listed
ReviewList_get == DOMAIN reviews

\* PlaceReviewList.get: the ids listed for a place, or 404
PlaceReviewList_get(place_id) ==
    IF place_id \in DOMAIN places
    THEN [status |-> 200, ids |-> GetReviewsByPlace(reviews, place_id)]
    ELSE [status |-> 404, ids |-> {}]

\* ----------------------------------------------------------------- Amenity
amenity_model == {"name"}

\* Amenity._validate_name
ValidateAmenityNameOk(name) ==
    name # <<>> /\ Strip(name) # <<>> /\ Len(Strip(name)) <= MaxAmenityNameLen
ValidateAmenityName(name) == Strip(name)

\* AmenityRepository.get_by_name: filter_by(name=name).first()
RepoGetAmenityByName(am, name) == {i \in DOMAIN am : am[i].name = name}

NewAmenityId(am) == Cardinality(DOMAIN am) + 1

\* HBnBFacade.create_amenity: [err, amenities]
FacadeCreateAmenity(am, data) ==
    LET amenity_name == IF Has(data, "name") THEN Strip(data.name) ELSE <<>>
    IN  IF RepoGetAmenityByName(am, amenity_name) # {}
          THEN [err |-> "Amenity name already exists", amenities |-> am]
        ELSE IF ~Has(data, "name") \/ data.name = <<>>
          THEN [err |-> "Amenity name is required and must be a string", amenities |-> am]
        ELSE IF Strip(data.name) = <<>>
          THEN [err |-> "Amenity name cannot be empty", amenities |-> am]
        ELSE IF Len(Strip(data.name)) > MaxAmenityNameLen
          THEN [err |-> "Amenity name must be less than 50 characters", amenities |-> am]
        ELSE [err |-> "",
              amenities |-> Extend(am, NewAmenityId(am),
                                   [name |-> ValidateAmenityName(data.name)])]

\* HBnBFacade.update_amenity: [err, amenities]; err = "none" when the amenity
\* is unknown, "crash" for the exception that is not a ValueError
FacadeUpdateAmenity(am, amenity_id, data) ==
    IF amenity_id \notin DOMAIN am
      THEN [err |-> "none", amenities |-> am]
    ELSE IF Has(data, "name")
            /\ RepoGetAmenityByName(am, Strip(data.name)) \ {amenity_id} # {}
      THEN [err |-> "Amenity name already exists", amenities |-> am]
    ELSE IF Has(data, "name") /\ Strip(data.name) = <<>>
      THEN [err |-> "Amenity name is required and must be a string", amenities |-> am]
    ELSE IF Has(data, "name") /\ Len(Strip(data.name)) > MaxAmenityNameLen
      THEN [err |-> "Amenity name must be less than 50 characters", amenities |-> am]
    ELSE IF ~RepoUpdateAcceptsObject
      THEN [err |-> "crash", amenities |-> am]
    ELSE [err |-> "",
          amenities |-> IF Has(data, "name")
                        THEN [am EXCEPT ![amenity_id] = [name |-> ValidateAmenityName(data.name)]]
                        ELSE am]

\* ------------------------------------------------------------ amenities API
\* an amenities response: status, message, and the table after the request
AmenityResult(st, m, am) == [status |-> st, msg |-> m, amenities |-> am]

\* Fault variant: the admin gate of the amenities endpoints left out
AmenityChangeOpen(tok) == FALSE

\* AmenityList.post / AmenityResource.put: the admin gate
AmenityChangeForbidden(tok) == ~tok.is_admin

\* AmenityList.post
AmenityList_post(tok, data) ==
    IF ~PayloadValid(data, amenity_model) THEN AmenityResult(400, ValidationFailed, amenities)
    ELSE IF AmenityChangeForbidden(tok)
      THEN AmenityResult(403, "Admin privileges required", amenities)
    ELSE LET c == FacadeCreateAmenity(amenities, data)
         IN  IF c.err = "" THEN AmenityResult(201, "", c.amenities)
             ELSE AmenityResult(400, c.err, amenities)

\* AmenityResource.put
AmenityResource_put(tok, amenity_id, data) ==
    IF AmenityChangeForbidden(tok)
      THEN AmenityResult(403, "Admin privileges required", amenities)
    ELSE LET c == FacadeUpdateAmenity(amenities, amenity_id, data)
         IN  IF c.err = "" THEN AmenityResult(200, "", c.amenities)
             ELSE IF c.err = "none" THEN AmenityResult(404, "Amenity not found", amenities)
             ELSE IF c.err = "crash" THEN AmenityResult(500, "Internal Server Error", amenities)
             ELSE AmenityResult(400, c.err, amenities)

\* AmenityResource.get: Amenity.to_dict() of the row, or 404
AmenityResource_get(amenity_id) ==
    IF amenity_id \in DOMAIN amenities
    THEN [status |-> 200, body |-> [id |-> amenity_id, name |-> amenities[amenity_id].name]]
    ELSE [status |-> 404, body |-> [error |-> "Amenity not found"]]

\* ------------------------------------------------------------------ inputs
\* create_admin.py: the account every deployment starts with
admin_data ==
    [first_name |-> <<"A","d","m","i","n">>, last_name |-> <<"U","s","e","r">>,
     email |-> <<"a","d","m","i","n","@","h","b","n","b",".","c","o","m">>, password |-> <<"a","d","m","i","n","1","2","3">>, is_admin |-> TRUE]

Secret   == <<"s","e","c","r","e","t">>
Hunter   == <<"h","u","n","t","e","r">>
TooShort == <<"p","w">>
MailA    == <<"a","@","b",".","i","o">>
MailARaw == <<" ","A","@","b",".","i","o">>
MailC    == <<"c","@","b",".","i","o">>

\* request bodies for /users
UserPayloads ==
    { [first_name |-> <<"A","l">>, last_name |-> <<"L","i">>, email |-> MailA, password |-> Secret],
      [first_name |-> <<" ","B","o">>, last_name |-> <<"O","z">>, email |-> MailARaw, password |-> Hunter],
      [first_name |-> <<"C","y">>, last_name |-> <<"N","g">>, email |-> MailC, password |-> Secret,
       is_admin |-> TRUE],
      [first_name |-> <<"C","y">>, last_name |-> <<"N","g">>, email |-> MailC, password |-> TooShort],
      [first_name |-> <<"D","i">>, last_name |-> <<"W","u">>] }

\* bodies for PUT /users/<id> that carry an is_admin value
FlagPayloads ==
    { [first_name |-> admin_data.first_name, last_name |-> admin_data.last_name,
       email |-> admin_data.email, password |-> admin_data.password, is_admin |-> FALSE],
      [first_name |-> <<"A","l">>, last_name |-> <<"L","i">>, email |-> MailA,
       password |-> Secret, is_admin |-> TRUE],
      [first_name |-> <<"A","l">>, last_name |-> <<"L","i">>, is_admin |-> TRUE],
      [is_admin |-> TRUE] }

\* bodies for /users with every combination of the four documented keys
ProfileFull ==
    [first_name |-> <<"Z","e","d">>, last_name |-> <<"N","a">>, email |-> MailC, password |-> Hunter]
ProfilePayloads == {[k \in K |-> ProfileFull[k]] : K \in SUBSET user_model}

\* credentials tried at /auth/login
LoginEmails    == {admin_data.email, MailA, MailARaw, MailC}
LoginPasswords == {admin_data.password, Secret, Hunter}

\* request bodies for /places
PlacePayloads ==
    { [title |-> <<" ","I","n","n">>, description |-> <<"d","1">>, price |-> 100,
       latitude |-> 34, longitude |-> -118, owner_id |-> 2],
      [title |-> <<"H","u","t">>, description |-> <<>>, price |-> -5,
       latitude |-> 91, longitude |-> 0, owner_id |-> 1],
      [title |-> <<"H","u","t">>, price |-> 200] }

\* request bodies for /reviews
ReviewPayloads ==
    { [text |-> <<" ","o","k"," ">>, rating |-> 5, user_id |-> 1, place_id |-> p] :
          p \in 1..MaxPlaces }
    \cup
    { [text |-> <<"m","e","h">>, rating |-> 9, user_id |-> 2, place_id |-> 1],
      [rating |-> 1] }

\* request bodies for PUT /reviews/<id>
ReviewUpdates ==
    { [text |-> <<" ","n","e","w">>, rating |-> 4, user_id |-> 3, place_id |-> 2],
      [rating |-> 9] }

\* ids named in request paths; an id not yet issued is an unknown row
\* request bodies for /amenities
AmenityPayloads ==
    { [name |-> <<" ","W","i","f","i">>], [name |-> <<"W","i","f","i">>],
      [name |-> <<"w","i","f","i">>], [name |-> <<"P","o","o","l">>],
      [name |-> <<" ">>], NoPayload }

AmenityIds == 1..MaxAmenities
UserIds   == 1..(MaxUsers + 1)
PlaceIds  == 1..MaxPlaces
ReviewIds == 1..MaxReviews

\* -------------------------------------------------------------------- Init
NoToken == [identity |-> 0, is_admin |-> FALSE]

\* a repository nothing was handed to
NoRepo == [part |-> 3, objects |-> <<>>, storage |-> <<>>, added |-> <<>>]
Request(op, tok, target, st, m) ==
    [op |-> op, tok |-> tok, target |-> target, author |-> 0, status |-> st, msg |-> m]

Init ==
    /\ users = FacadeCreateUser(<<>>, admin_data).users
    /\ places = <<>>
    /\ reviews = <<>>
    /\ reviewSeq = 0
    /\ tokens = {}
    /\ deleted = {}
    /\ amenities = <<>>
    /\ last = Request("none", NoToken, 0, 0, "")
    /\ clock = 0
    /\ repo = NoRepo
    /\ inflight = <<>>

\* ----------------------------------------------------------------- actions
\* the database after a request, and the record of the request
Respond(op, tok, target, r) ==
    /\ users' = r.users
    /\ places' = r.places
    /\ reviews' = r.reviews
    /\ last' = Request(op, tok, target, r.status, r.msg)

Login ==
    \E email \in LoginEmails : \E password \in LoginPasswords :
        LET r == Login_post(email, password)
        IN  /\ tokens' = tokens \cup r.token
            /\ last' = Request("login", NoToken, 0, r.status, r.msg)
            /\ UNCHANGED <<inflight, repo, clock, amenities, users, places, reviews, reviewSeq, deleted>>

PostUser ==
    \E tok \in tokens : \E data \in UserPayloads :
        LET r == UserList_post(tok, data)
        IN  /\ r.status = 201 => Cardinality(DOMAIN users) < MaxUsers
            /\ Respond("post_user", tok, 0, r)
            /\ UNCHANGED <<inflight, repo, clock, amenities, reviewSeq, tokens, deleted>>

PutUser ==
    \E tok \in tokens : \E user_id \in UserIds : \E data \in UserPayloads :
        /\ Respond("put_user", tok, user_id, UserResource_put(tok, user_id, data))
        /\ UNCHANGED <<inflight, repo, clock, amenities, reviewSeq, tokens, deleted>>

PostPlace ==
    \E tok \in tokens : \E data \in PlacePayloads :
        LET r == PlaceList_post(tok, data)
        IN  /\ r.status = 201 => Cardinality(DOMAIN places) < MaxPlaces
            /\ Respond("post_place", tok, 0, r)
            /\ UNCHANGED <<inflight, repo, clock, amenities, reviewSeq, tokens, deleted>>

PutPlace ==
    \E tok \in tokens : \E place_id \in PlaceIds : \E data \in PlacePayloads :
        /\ Respond("put_place", tok, place_id, PlaceResource_put(tok, place_id, data))
        /\ UNCHANGED <<inflight, repo, clock, amenities, reviewSeq, tokens, deleted>>

PostReview ==
    \E tok \in tokens : \E data \in ReviewPayloads :
        LET r == ReviewList_post(tok, data)
        IN  /\ r.status = 201 => reviewSeq < MaxReviews
            /\ Respond("post_review", tok, IF Has(data, "place_id") THEN data.place_id ELSE 0, r)
            /\ reviewSeq' = IF r.status = 201 THEN reviewSeq + 1 ELSE reviewSeq
            /\ UNCHANGED <<inflight, repo, clock, amenities, tokens, deleted>>

PutReview ==
    \E tok \in tokens : \E review_id \in ReviewIds : \E data \in ReviewUpdates :
        /\ Respond("put_review", tok, review_id, ReviewResource_put(tok, review_id, data))
        /\ UNCHANGED <<inflight, repo, clock, amenities, reviewSeq, tokens, deleted>>

DeleteReview ==
    \E tok \in tokens : \E review_id \in ReviewIds :
        LET r == ReviewResource_delete(tok, review_id)
            author == IF review_id \in DOMAIN reviews
                      THEN reviews[review_id].user_id ELSE 0
        IN  /\ users' = r.users
            /\ places' = r.places
            /\ reviews' = r.reviews
            /\ last' = [Request("delete_review", tok, review_id, r.status, r.msg)
                           EXCEPT !.author = author]
            /\ deleted' = IF r.status = 200 THEN deleted \cup {review_id} ELSE deleted
            /\ UNCHANGED <<inflight, repo, clock, amenities, reviewSeq, tokens>>

PostAmenity ==
    \E tok \in tokens : \E data \in AmenityPayloads :
        LET r == AmenityList_post(tok, data)
        IN  /\ r.status = 201 => Cardinality(DOMAIN amenities) < MaxAmenities
            /\ amenities' = r.amenities
            /\ last' = Request("post_amenity", tok, 0, r.status, r.msg)
            /\ UNCHANGED <<inflight, repo, clock, users, places, reviews, reviewSeq, tokens, deleted>>

PutAmenity ==
    \E tok \in tokens : \E amenity_id \in AmenityIds : \E data \in AmenityPayloads :
        LET r == AmenityResource_put(tok, amenity_id, data)
        IN  /\ amenities' = r.amenities
            /\ last' = Request("put_amenity", tok, amenity_id, r.status, r.msg)
            /\ UNCHANGED <<inflight, repo, clock, users, places, reviews, reviewSeq, tokens, deleted>>

Next ==
    \/ Login
    \/ PostUser
    \/ PutUser
    \/ PostPlace
    \/ PutPlace
    \/ PostReview
    \/ PutReview
    \/ DeleteReview
    \/ PostAmenity
    \/ PutAmenity

Spec == Init /\ [][Next]_vars

\* The accounts API alone: registration, profile updates, login
NextUsers ==
    \/ Login
    \/ PostUser
    \/ PutUser

SpecUsers == Init /\ [][NextUsers]_vars

\* PUT /users/<id> with a body that names is_admin
PutUserFlag ==
    \E tok \in tokens : \E user_id \in UserIds : \E data \in FlagPayloads :
        /\ Respond("put_user", tok, user_id, UserResource_put(tok, user_id, data))
        /\ UNCHANGED <<inflight, repo, clock, amenities, reviewSeq, tokens, deleted>>

NextAdminFlag ==
    \/ Login
    \/ PostUser
    \/ PutUserFlag

SpecAdminFlag == Init /\ [][NextAdminFlag]_vars

\* The places and reviews API, started from a database in which the admin
\* has registered the other accounts and every account has logged in
SeedPayload(i) ==
    IF i = 1 THEN admin_data
    ELSE [first_name |-> <<"U", LowerLetters[i]>>, last_name |-> <<"N">>,
          email |-> <<LowerLetters[i], "@", "b", ".", "i", "o">>, password |-> Secret]

RECURSIVE SeededUsers(_)
SeededUsers(n) ==
    IF n = 0 THEN <<>> ELSE FacadeCreateUser(SeededUsers(n - 1), SeedPayload(n)).users

SeededTokens(us) ==
    {[identity |-> i, is_admin |-> us[i].is_admin] : i \in DOMAIN us}

InitContent ==
    /\ users = SeededUsers(MaxUsers)
    /\ places = <<>>
    /\ reviews = <<>>
    /\ reviewSeq = 0
    /\ tokens = SeededTokens(users)
    /\ deleted = {}
    /\ amenities = <<>>
    /\ last = Request("none", NoToken, 0, 0, "")
    /\ clock = 0
    /\ repo = NoRepo
    /\ inflight = <<>>

NextContent ==
    \/ PostPlace
    \/ PutPlace
    \/ PostReview
    \/ PutReview
    \/ DeleteReview

SpecContent == InitContent /\ [][NextContent]_vars

\* ------------------------------------------- POST /reviews served concurrently
\* ReviewList.post up to its call of facade.create_review, on the tables as
\* the request reads them: the response of a refused request, status 0 when
\* every test passed
ReviewList_postChecks(tok, data, ps, rs) ==
    IF ~PayloadValid(data, review_model) THEN [status |-> 400, msg |-> ValidationFailed]
    ELSE IF data.place_id \notin DOMAIN ps THEN [status |-> 404, msg |-> "Place not found"]
    ELSE IF IsOwnPlace(tok, ps[data.place_id])
      THEN [status |-> 400, msg |-> "You cannot review your own place"]
    ELSE IF AlreadyReviewed(tok, rs, data.place_id)
      THEN [status |-> 400, msg |-> "You have already reviewed this place"]
    ELSE [status |-> 0, msg |-> ""]

\* a request reaches ReviewList.post
ReviewPostArrive ==
    \E tok \in tokens : \E data \in ReviewPayloads :
        /\ Len(inflight) < MaxRequests
        /\ inflight' = Append(inflight, [tok |-> tok, data |-> data, pc |-> "check", status |-> 0])
        /\ UNCHANGED <<users, places, reviews, reviewSeq, amenities, tokens, deleted, last,
                       clock, repo>>

\* the request runs the tests of the handler; a refused request is answered
ReviewPostCheck ==
    \E k \in DOMAIN inflight :
        LET c == ReviewList_postChecks(inflight[k].tok, inflight[k].data, places, reviews)
        IN  /\ inflight[k].pc = "check"
            /\ inflight' = [inflight EXCEPT ![k].pc = IF c.status = 0 THEN "insert" ELSE "done",
                                            ![k].status = c.status]
            /\ last' = IF c.status = 0 THEN last
                       ELSE Request("post_review", inflight[k].tok, 0, c.status, c.msg)
            /\ UNCHANGED <<users, places, reviews, reviewSeq, amenities, tokens, deleted,
                           clock, repo>>

\* the request calls facade.create_review and is answered
ReviewPostInsert ==
    \E k \in DOMAIN inflight :
        LET tok == inflight[k].tok
            c == FacadeCreateReview(users, places, reviews, reviewSeq,
                                    [inflight[k].data EXCEPT !["user_id"] = tok.identity])
            st == IF c.err = "" THEN 201 ELSE 400
        IN  /\ inflight[k].pc = "insert"
            /\ st = 201 => reviewSeq < MaxReviews
            /\ reviews' = c.reviews
            /\ reviewSeq' = IF st = 201 THEN reviewSeq + 1 ELSE reviewSeq
            /\ inflight' = [inflight EXCEPT ![k].pc = "done", ![k].status = st]
            /\ last' = Request("post_review", tok, inflight[k].data.place_id, st, c.err)
            /\ UNCHANGED <<users, places, amenities, tokens, deleted, clock, repo>>

NextConcurrentReviews ==
    \/ PostPlace
    \/ ReviewPostArrive
    \/ ReviewPostCheck
    \/ ReviewPostInsert

SpecConcurrentReviews == InitContent /\ [][NextConcurrentReviews]_vars

\* ------------------------------------------------ the facade called directly
\* arguments of create_place, create_review and update_user
FacadePlaceData ==
    PlacePayloads \cup
    { [title |-> <<"H","u","t">>, description |-> <<>>, price |-> 200,
       latitude |-> 0, longitude |-> 0, owner_id |-> MaxUsers + 2] }
FacadeReviewData ==
    ReviewPayloads \cup
    { [text |-> <<"o","k">>, rating |-> MaxRating, user_id |-> MaxUsers + 2, place_id |-> 1],
      [text |-> <<"o","k">>, rating |-> MaxRating, user_id |-> 1, place_id |-> MaxPlaces + 1] }
FacadeUserData ==
    { [first_name |-> <<"Z","e","d">>], [id |-> 1], [id |-> MaxUsers + 1],
      [last_name |-> <<" ">>] }

\* facade.create_place(place_data)
CreatePlace ==
    \E data \in FacadePlaceData :
        LET c == FacadeCreatePlace(users, places, data)
        IN  /\ c.err = "" => Cardinality(DOMAIN places) < MaxPlaces
            /\ places' = c.places
            /\ last' = Request("create_place", NoToken, 0, 0, c.err)
            /\ UNCHANGED <<users, reviews, reviewSeq, amenities, tokens, deleted, clock, repo,
                           inflight>>

\* facade.create_review(review_data)
CreateReview ==
    \E data \in FacadeReviewData :
        LET c == FacadeCreateReview(users, places, reviews, reviewSeq, data)
        IN  /\ c.err = "" => reviewSeq < MaxReviews
            /\ reviews' = c.reviews
            /\ reviewSeq' = IF c.err = "" THEN reviewSeq + 1 ELSE reviewSeq
            /\ last' = Request("create_review", NoToken, 0, 0, c.err)
            /\ UNCHANGED <<users, places, amenities, tokens, deleted, clock, repo, inflight>>

\* facade.update_user(user_id, user_data)
UpdateUser ==
    \E user_id \in UserIds : \E data \in FacadeUserData :
        LET c == FacadeUpdateUser(users, user_id, data)
        IN  /\ users' = c.users
            /\ last' = Request("update_user", NoToken, user_id, 0, c.err)
            /\ UNCHANGED <<places, reviews, reviewSeq, amenities, tokens, deleted, clock, repo,
                           inflight>>

\* facade.delete_review(review_id)
DeleteReviewRow ==
    \E review_id \in ReviewIds :
        LET c == FacadeDeleteReview(reviews, review_id)
        IN  /\ reviews' = c.reviews
            /\ last' = Request("delete_review", NoToken, review_id, 0,
                               IF c.ok THEN "True" ELSE "False")
            /\ UNCHANGED <<users, places, reviewSeq, amenities, tokens, deleted, clock, repo,
                           inflight>>

NextFacade ==
    \/ CreatePlace
    \/ CreateReview
    \/ UpdateUser
    \/ DeleteReviewRow

SpecFacade == InitContent /\ [][NextFacade]_vars

\* The amenities API, started from the same database
NextAmenities ==
    \/ PostAmenity
    \/ PutAmenity

SpecAmenities == InitContent /\ [][NextAmenities]_vars

\* ------------------------------------------------- User passwords on their own
\* n times the letter a, then tail
Pad(n, tail) == [i \in 1..n |-> "a"] \o tail

\* passwords around the two length limits
PasswordInputs ==
    << <<>>,
       Pad(MinPasswordLen - 1, <<>>),
       Pad(MinPasswordLen - 1, <<"x">>),
       Pad(MinPasswordLen - 1, <<"y">>),
       Pad(MinPasswordLen, <<"x">>),
       Pad(MinPasswordLen, <<"y">>),
       Pad(BcryptMaxBytes - 1, <<"x">>),
       Pad(BcryptMaxBytes - 1, <<"y">>),
       Pad(BcryptMaxBytes, <<>>),
       Pad(BcryptMaxBytes, <<"x">>),
       Pad(BcryptMaxBytes, <<"y">>),
       Pad(BcryptMaxBytes - 1, <<"x", "z">>) >>

\* the constructor arguments of a User with password p
PasswordData(p) == [SeedPayload(2) EXCEPT !.password = p]

\* User(...) as create_user builds it, on an empty table: [err, users].
\* refuses: the installed bcrypt rejects inputs longer than BcryptMaxBytes
\* (ValueError) instead of hashing their first BcryptMaxBytes bytes.
NewUser(data, refuses) ==
    IF refuses /\ HashPasswordOk(data.password) /\ Len(data.password) > BcryptMaxBytes
    THEN [err |-> "password cannot be longer than 72 bytes", users |-> <<>>]
    ELSE FacadeCreateUser(<<>>, data)

\* User.verify_password under either bcrypt
CheckPassword(stored, q, refuses) ==
    IF refuses /\ Len(q) > BcryptMaxBytes THEN "error" ELSE VerifyPassword(stored, q)

InitPasswords ==
    /\ users = <<>>
    /\ places = <<>>
    /\ reviews = <<>>
    /\ reviewSeq = 0
    /\ amenities = <<>>
    /\ tokens = {}
    /\ deleted = {}
    /\ last = Request("none", NoToken, 0, 0, "")
    /\ clock = 0
    /\ repo = NoRepo
    /\ inflight = <<>>

\* User(first_name, last_name, email, password): target is the index of the
\* password in PasswordInputs
ConstructUser ==
    \E k \in DOMAIN PasswordInputs : \E refuses \in BOOLEAN :
        LET c == NewUser(PasswordData(PasswordInputs[k]), refuses)
        IN  /\ users' = c.users
            /\ last' = Request("new_user", NoToken, k, IF c.err = "" THEN 201 ELSE 400, c.err)
            /\ UNCHANGED <<inflight, repo, clock, places, reviews, reviewSeq, amenities, tokens, deleted>>

\* user.verify_password(q) on the constructed user: msg is the outcome
VerifyUser ==
    \E k \in DOMAIN PasswordInputs : \E refuses \in BOOLEAN :
        /\ users # <<>>
        /\ last' = Request("verify_password", NoToken, k, 0,
                           CheckPassword(users[1].password, PasswordInputs[k], refuses))
        /\ UNCHANGED <<inflight, repo, clock, users, places, reviews, reviewSeq, amenities, tokens, deleted>>

NextPasswords ==
    \/ ConstructUser
    \/ VerifyUser

SpecPasswords == InitPasswords /\ [][NextPasswords]_vars

\* ------------------------------------------- part2: the in-memory amenities
\* Amenity(name) of part2: BaseModel.__init__ sets id and both timestamps
MemAmenity(id, name, t) == [id |-> id, name |-> name, created_at |-> t, updated_at |-> t]

\* BaseModel.update(data) at time t: every key of data that is an attribute
\* of the object is assigned, then save() sets updated_at
\* obj is the instance dictionary; the methods are attributes of the class
MethodNames == {"save", "update"}

\* hasattr(self, key)
HasAttr(obj, key) == key \in DOMAIN obj \/ key \in MethodNames

\* the setattr loop: a key that names a method becomes an instance attribute
\* that hides the method
SetAttrs(obj, data) ==
    [k \in DOMAIN obj \cup {key \in DOMAIN data : HasAttr(obj, key)} |->
        IF k \in DOMAIN data THEN data[k] ELSE obj[k]]

\* self.save() raises TypeError when an instance attribute hides the method
\* (the values of a request body are not callable)
BaseModelUpdateRaises(obj, data) == "save" \in DOMAIN SetAttrs(obj, data)

BaseModelUpdate(obj, data, t) ==
    IF BaseModelUpdateRaises(obj, data) THEN SetAttrs(obj, data)
    ELSE [SetAttrs(obj, data) EXCEPT !["updated_at"] = t]

\* InMemoryRepository.update(obj_id, data): obj.update(data) when the object is stored
MemRepoUpdate(am, obj_id, data, t) ==
    IF obj_id \in DOMAIN am
    THEN [am EXCEPT ![obj_id] = BaseModelUpdate(am[obj_id], data, t)]
    ELSE am

\* HBnBFacade.create_amenity of part2: [err, amenities]
MemCreateAmenity(am, data, t) ==
    IF ~Has(data, "name") \/ data.name = <<>>
      THEN [err |-> "Amenity name is required", amenities |-> am]
    ELSE IF Strip(data.name) = <<>>
      THEN [err |-> "Amenity name cannot be empty", amenities |-> am]
    ELSE IF \E i \in DOMAIN am : Lower(am[i].name) = Lower(Strip(data.name))
      THEN [err |-> "Amenity with this name already exists", amenities |-> am]
    ELSE IF Len(Strip(data.name)) > MaxAmenityNameLen
      THEN [err |-> "Amenity name must not exceed 50 characters", amenities |-> am]
    ELSE [err |-> "",
          amenities |-> Extend(am, NewAmenityId(am),
                               MemAmenity(NewAmenityId(am), Strip(data.name), t))]

\* HBnBFacade.update_amenity of part2: [err, amenities]; amenity.name is set
\* to the stripped name and then the repository applies the request data
MemUpdateAmenity(am, amenity_id, data, t) ==
    IF ~Has(data, "name") \/ data.name = <<>>
      THEN [err |-> "Amenity name is required", amenities |-> am]
    ELSE IF Strip(data.name) = <<>>
      THEN [err |-> "Amenity name cannot be empty", amenities |-> am]
    ELSE IF amenity_id \notin DOMAIN am
      THEN [err |-> "not found", amenities |-> am]
    ELSE IF \E i \in DOMAIN am :
                am[i].id # amenity_id /\ Lower(am[i].name) = Lower(Strip(data.name))
      THEN [err |-> "Amenity with this name already exists", amenities |-> am]
    ELSE [err |-> IF BaseModelUpdateRaises(am[amenity_id], data) THEN "crash" ELSE "",
          amenities |-> MemRepoUpdate([am EXCEPT ![amenity_id].name = Strip(data.name)],
                                      amenity_id, data, t)]

\* AmenityList.post of part2: [status, msg, amenities]. Amenity has no
\* to_dict in part2, so after create_amenity stored the amenity the handler's
\* except Exception answers 500.
MemAmenityList_post(am, data, t) ==
    LET c == MemCreateAmenity(am, data, t)
    IN  IF c.err = ""
        THEN AmenityResult(500, "An error occurred while creating the amenity", c.amenities)
        ELSE AmenityResult(400, c.err, am)

\* AmenityResource.put of part2: [status, msg, amenities]
MemAmenityResource_put(am, amenity_id, data, t) ==
    IF ~Has(data, "name") THEN AmenityResult(400, "Invalid input data", am)
    ELSE IF Strip(data.name) = <<>> THEN AmenityResult(400, "Amenity name cannot be empty", am)
    ELSE LET c == MemUpdateAmenity(am, amenity_id, data, t)
         IN  IF c.err = "" THEN AmenityResult(200, "Amenity updated successfully", c.amenities)
             ELSE IF c.err = "crash"
               THEN AmenityResult(500, "An error occurred while updating the amenity",
                                  c.amenities)
             ELSE IF c.err = "not found" THEN AmenityResult(404, "Amenity not found", am)
             ELSE AmenityResult(400, c.err, am)

\* POST /amenities of part2
MemoryPostAmenity ==
    \E data \in AmenityPayloads :
        LET r == MemAmenityList_post(amenities, data, clock)
        IN  /\ r.amenities # amenities => Cardinality(DOMAIN amenities) < MaxAmenities
            /\ amenities' = r.amenities
            /\ last' = Request("create_amenity", NoToken, 0, r.status, r.msg)
            /\ UNCHANGED <<inflight, repo, clock, users, places, reviews, reviewSeq, tokens, deleted>>

\* PUT /amenities/<id> of part2
MemoryPutAmenity ==
    \E amenity_id \in AmenityIds : \E data \in AmenityPayloads :
        LET r == MemAmenityResource_put(amenities, amenity_id, data, clock)
        IN  /\ amenities' = r.amenities
            /\ last' = Request("update_amenity", NoToken, amenity_id, r.status, r.msg)
            /\ UNCHANGED <<inflight, repo, clock, users, places, reviews, reviewSeq, tokens, deleted>>

NextMemoryAmenities ==
    \/ MemoryPostAmenity
    \/ MemoryPutAmenity

SpecMemoryAmenities == InitPasswords /\ [][NextMemoryAmenities]_vars

\* --------------------------------------------- part2: the in-memory reviews
\* Review._validate_text of part2
MemValidateTextOk(text) ==
    text # <<>> /\ Strip(text) # <<>> /\ Len(Strip(text)) <= MaxTextLen

\* Review._validate_rating of part2
MemValidateRatingOk(rating) == rating \in Int /\ rating >= MinRating /\ rating <= MaxRating

\* Place.add_review: append unless the review is in the list
PlaceAddReview(list, review_id) ==
    IF \E k \in DOMAIN list : list[k] = review_id THEN list ELSE Append(list, review_id)

\* list.remove(review): the first occurrence is dropped
ListRemove(list, review_id) ==
    IF \A k \in DOMAIN list : list[k] # review_id THEN list
    ELSE LET at == CHOOSE k \in DOMAIN list :
                       list[k] = review_id /\ \A j \in 1..(k - 1) : list[j] # review_id
         IN  SubSeq(list, 1, at - 1) \o SubSeq(list, at + 1, Len(list))

\* HBnBFacade.create_review of part2: [err, reviews, places]; the review keeps
\* the ids of its place and user objects, seq + 1 is its fresh id
MemCreateReview(rs, us, ps, seq, data, t) ==
    LET fail(m) == [err |-> m, reviews |-> rs, places |-> ps]
    IN  IF ~Has(data, "text") \/ data.text = <<>> THEN fail("Review text is required")
        ELSE IF ~Has(data, "rating") THEN fail("Rating is required")
        ELSE IF ~Has(data, "user_id") THEN fail("User ID is required")
        ELSE IF ~Has(data, "place_id") THEN fail("Place ID is required")
        ELSE IF data.user_id \notin DOMAIN us THEN fail("User not found")
        ELSE IF data.place_id \notin DOMAIN ps THEN fail("Place not found")
        ELSE IF ~MemValidateTextOk(data.text)
          THEN fail("Review text cannot be empty or just whitespace")
        ELSE IF ~MemValidateRatingOk(data.rating)
          THEN fail("Rating must be between 1 and 5")
        ELSE [err |-> "",
              reviews |-> Extend(rs, seq + 1,
                  [id |-> seq + 1, text |-> Strip(data.text), rating |-> data.rating,
                   place |-> data.place_id, user |-> data.user_id,
                   created_at |-> t, updated_at |-> t]),
              places |-> [ps EXCEPT ![data.place_id].reviews = PlaceAddReview(@, seq + 1)]]

\* Fault variant: the review leaves the repository and stays in its place's list
MemDeleteReviewKeepsEntry(rs, ps, review_id) ==
    IF review_id \notin DOMAIN rs
    THEN [err |-> "Review not found", reviews |-> rs, places |-> ps]
    ELSE [err |-> "", reviews |-> Without(rs, review_id), places |-> ps]

\* HBnBFacade.delete_review of part2: [err, reviews, places]
MemDeleteReview(rs, ps, review_id) ==
    IF review_id \notin DOMAIN rs
    THEN [err |-> "Review not found", reviews |-> rs, places |-> ps]
    ELSE [err |-> "",
          reviews |-> Without(rs, review_id),
          places |-> [ps EXCEPT ![rs[review_id].place].reviews = ListRemove(@, review_id)]]

\* HBnBFacade.update_review of part2: [err, reviews]; err = "none" when the
\* review is unknown (returns None)
MemUpdateReview(rs, review_id, data, t) ==
    IF review_id \in DOMAIN rs
    THEN [err |-> IF BaseModelUpdateRaises(rs[review_id], data) THEN "crash" ELSE "",
          reviews |-> MemRepoUpdate(rs, review_id, data, t)]
    ELSE [err |-> "none", reviews |-> rs]

\* ReviewList.post of part2: [status, msg, reviews]
MemReviewList_post(rs, us, ps, seq, data, t) ==
    LET c == MemCreateReview(rs, us, ps, seq, data, t)
    IN  IF c.err = ""
        THEN [status |-> 201, msg |-> "", reviews |-> c.reviews, places |-> c.places]
        ELSE [status |-> 400, msg |-> c.err, reviews |-> rs, places |-> ps]

\* ReviewResource.put of part2: [status, msg, reviews]
MemReviewResource_put(rs, review_id, data, t) ==
    LET c == MemUpdateReview(rs, review_id, data, t)
    IN  IF c.err = "none" THEN [status |-> 404, msg |-> "Review not found", reviews |-> rs]
        ELSE IF c.err = "crash"
          THEN [status |-> 500, msg |-> "An error occurred while updating the review",
                reviews |-> c.reviews]
        ELSE [status |-> 200, msg |-> "Review updated successfully", reviews |-> c.reviews]

\* the part2 objects stored by one POST /users and one POST /places
MemSeedUsers ==
    << [id |-> 1, first_name |-> <<"A","l">>, last_name |-> <<"L","i">>, email |-> MailA,
        is_admin |-> FALSE, created_at |-> 0, updated_at |-> 0] >>
MemSeedPlaces ==
    << [id |-> 1, title |-> <<"I","n","n">>, description |-> <<>>, price |-> 100,
        latitude |-> 0, longitude |-> 0, owner |-> 1, reviews |-> <<>>,
        created_at |-> 0, updated_at |-> 0],
       [id |-> 2, title |-> <<"H","u","t">>, description |-> <<>>, price |-> 50,
        latitude |-> 0, longitude |-> 0, owner |-> 1, reviews |-> <<>>,
        created_at |-> 0, updated_at |-> 0] >>

\* request bodies for POST /reviews of part2
MemReviewPayloads ==
    { [text |-> <<" ","o","k"," ">>, rating |-> r, user_id |-> 1, place_id |-> 1] :
          r \in {MinRating - 1, MinRating, MaxRating, MaxRating + 1} }
    \cup
    { [text |-> <<"m","e","h">>, rating |-> MinRating, user_id |-> 2, place_id |-> 1],
      [text |-> <<"o","k">>, rating |-> MaxRating, user_id |-> 1, place_id |-> 2],
      [text |-> <<"o","k">>, rating |-> MaxRating, user_id |-> 1, place_id |-> 3],
      [rating |-> MinRating] }

\* request bodies for PUT /reviews/<id> of part2
MemReviewUpdates ==
    { [rating |-> r] : r \in {MinRating - 1, MinRating + 1, MaxRating + 1} }
    \cup
    { [text |-> <<" ","n","e","w">>, rating |-> MaxRating - 1, user_id |-> 1, place_id |-> 1] }

InitMemoryReviews ==
    /\ users = MemSeedUsers
    /\ places = MemSeedPlaces
    /\ reviews = <<>>
    /\ reviewSeq = 0
    /\ amenities = <<>>
    /\ tokens = {}
    /\ deleted = {}
    /\ last = Request("none", NoToken, 0, 0, "")
    /\ clock = 0
    /\ repo = NoRepo
    /\ inflight = <<>>

\* POST /reviews of part2
MemoryPostReview ==
    \E data \in MemReviewPayloads :
        LET r == MemReviewList_post(reviews, users, places, reviewSeq, data, clock)
        IN  /\ r.status = 201 => reviewSeq < MaxReviews
            /\ reviews' = r.reviews
            /\ places' = r.places
            /\ reviewSeq' = IF r.status = 201 THEN reviewSeq + 1 ELSE reviewSeq
            /\ last' = Request("post_review", NoToken, 0, r.status, r.msg)
            /\ UNCHANGED <<inflight, repo, clock, users, amenities, tokens, deleted>>

\* PUT /reviews/<id> of part2
MemoryPutReview ==
    \E review_id \in ReviewIds : \E data \in MemReviewUpdates :
        LET r == MemReviewResource_put(reviews, review_id, data, clock)
        IN  /\ reviews' = r.reviews
            /\ last' = Request("put_review", NoToken, review_id, r.status, r.msg)
            /\ UNCHANGED <<inflight, repo, clock, users, places, reviewSeq, amenities, tokens, deleted>>

NextMemoryReviews ==
    \/ MemoryPostReview
    \/ MemoryPutReview

SpecMemoryReviews == InitMemoryReviews /\ [][NextMemoryReviews]_vars

\* facade.delete_review(review_id) of part2, as DELETE /reviews/<id> calls it:
\* ValueError is answered 404
MemoryDeleteReview ==
    \E review_id \in ReviewIds :
        LET c == MemDeleteReview(reviews, places, review_id)
        IN  /\ reviews' = c.reviews
            /\ places' = c.places
            /\ last' = Request("delete_review", NoToken, review_id,
                               IF c.err = "" THEN 200 ELSE 404, c.err)
            /\ UNCHANGED <<inflight, repo, clock, users, reviewSeq, amenities, tokens, deleted>>

NextMemoryBookkeeping ==
    \/ MemoryPostReview
    \/ MemoryDeleteReview

SpecMemoryBookkeeping == InitMemoryReviews /\ [][NextMemoryBookkeeping]_vars

\* ------------------------------------------------- part2: BaseModel.update
\* dictionaries passed to update(): attributes, an unknown key, a method name
UpdateDicts ==
    { <<>>,
      [first_name |-> <<"J","a","n","e">>, last_name |-> <<"S","m","i","t","h">>],
      [first_name |-> <<"J","o","h","n">>],
      [email |-> MailC, color |-> <<"r","e","d">>],
      [color |-> <<"r","e","d">>],
      [id |-> 7],
      [is_admin |-> TRUE, updated_at |-> 0],
      [last_name |-> <<"D","o","e">>, save |-> 1] }

\* time passes
Tick ==
    /\ clock < MaxClock
    /\ clock' = clock + 1
    /\ UNCHANGED <<inflight, repo, users, places, reviews, reviewSeq, amenities, tokens, deleted, last>>

\* user.update(data) on the stored user; status 500 stands for the TypeError
ObjectUpdate ==
    \E data \in UpdateDicts :
        /\ users' = [users EXCEPT ![1] = BaseModelUpdate(users[1], data, clock)]
        /\ last' = Request("update", NoToken, 1,
                           IF BaseModelUpdateRaises(users[1], data) THEN 500 ELSE 200, "")
        /\ UNCHANGED <<inflight, repo, clock, places, reviews, reviewSeq, amenities, tokens, deleted>>

NextBaseModel ==
    \/ Tick
    \/ ObjectUpdate

SpecBaseModel == InitMemoryReviews /\ [][NextBaseModel]_vars

\* ----------------------------------------------- part2: the in-memory users
mem_user_model == {"first_name", "last_name", "email"}

\* InMemoryRepository.get_by_attribute('email', email): the stored value is
\* compared with the value as given
MemGetUserByEmail(us, email) == {i \in DOMAIN us : us[i].email = email}

\* HBnBFacade.create_user of part2: User(**user_data), then add
MemCreateUser(us, data, t) ==
    IF ~ValidateNameOk(data.first_name) THEN [err |-> "First name invalid", users |-> us]
    ELSE IF ~ValidateNameOk(data.last_name) THEN [err |-> "Last name invalid", users |-> us]
    ELSE IF ~ValidateEmailOk(data.email) THEN [err |-> "Invalid email format", users |-> us]
    ELSE [err |-> "",
          users |-> Extend(us, NewUserId(us),
              [id |-> NewUserId(us), first_name |-> ValidateName(data.first_name),
               last_name |-> ValidateName(data.last_name),
               email |-> ValidateEmail(data.email), is_admin |-> FALSE,
               created_at |-> t, updated_at |-> t])]

\* HBnBFacade.update_user of part2: [err, users]
MemUpdateUser(us, user_id, data, t) ==
    IF user_id \notin DOMAIN us THEN [err |-> "none", users |-> us]
    ELSE IF Has(data, "email") /\ data.email # us[user_id].email
            /\ \E i \in MemGetUserByEmail(us, data.email) : us[i].id # user_id
      THEN [err |-> "Email already registered", users |-> us]
    ELSE [err |-> "", users |-> MemRepoUpdate(us, user_id, data, t)]

\* UserList.post of part2: [status, msg, users]
MemUserList_post(us, data, t) ==
    IF ~PayloadValid(data, mem_user_model)
      THEN [status |-> 400, msg |-> ValidationFailed, users |-> us]
    ELSE IF MemGetUserByEmail(us, data.email) # {}
      THEN [status |-> 400, msg |-> "Email already registered", users |-> us]
    ELSE LET c == MemCreateUser(us, data, t)
         IN  IF c.err = "" THEN [status |-> 201, msg |-> "", users |-> c.users]
             ELSE [status |-> 400, msg |-> c.err, users |-> us]

\* UserResource.put of part2: [status, msg, users]
MemUserResource_put(us, user_id, data, t) ==
    IF ~PayloadValid(data, mem_user_model)
      THEN [status |-> 400, msg |-> ValidationFailed, users |-> us]
    ELSE LET c == MemUpdateUser(us, user_id, data, t)
         IN  IF c.err = "none" THEN [status |-> 404, msg |-> "User not found", users |-> us]
             ELSE IF c.err = "" THEN [status |-> 200, msg |-> "", users |-> c.users]
             ELSE [status |-> 400, msg |-> c.err, users |-> us]

\* request bodies for /users of part2
MemUserPayloads ==
    { [first_name |-> <<"A","l">>, last_name |-> <<"L","i">>, email |-> MailA],
      [first_name |-> <<" ","B","o">>, last_name |-> <<"O","z">>, email |-> MailARaw],
      [first_name |-> <<"C","y">>, last_name |-> <<"N","g">>, email |-> MailC],
      [first_name |-> <<"D","i">>, last_name |-> <<"W","u">>] }

\* POST /users of part2
MemoryPostUser ==
    \E data \in MemUserPayloads :
        LET r == MemUserList_post(users, data, clock)
        IN  /\ r.status = 201 => Cardinality(DOMAIN users) < MaxUsers
            /\ users' = r.users
            /\ last' = Request("post_user", NoToken, 0, r.status, r.msg)
            /\ UNCHANGED <<inflight, repo, clock, places, reviews, reviewSeq, amenities, tokens, deleted>>

\* PUT /users/<id> of part2
MemoryPutUser ==
    \E user_id \in UserIds : \E data \in MemUserPayloads :
        LET r == MemUserResource_put(users, user_id, data, clock)
        IN  /\ users' = r.users
            /\ last' = Request("put_user", NoToken, user_id, r.status, r.msg)
            /\ UNCHANGED <<inflight, repo, clock, places, reviews, reviewSeq, amenities, tokens, deleted>>

NextMemoryUsers ==
    \/ MemoryPostUser
    \/ MemoryPutUser

SpecMemoryUsers == InitPasswords /\ [][NextMemoryUsers]_vars

\* ------------------------------------------------- the InMemoryRepository
\* None, where a reference is expected
None == 0

\* the keys named in calls, and the dictionaries passed to update()
RepoKeys == 1..MaxObjects
RepoUpdateDicts == { [name |-> <<"x">>], [id |-> 1], [id |-> MaxObjects] }

\* Fault variant: add files the object under its reference, not its id
InMemoryAddByReference(st, objs, ref) == Extend(st, ref, ref)

\* InMemoryRepository.add: self._storage[obj.id] = obj
InMemoryAdd(st, objs, ref) == Extend(st, objs[ref].id, ref)

\* InMemoryRepository.get
InMemoryGet(st, key) == IF key \in DOMAIN st THEN st[key] ELSE None

\* InMemoryRepository.get_all: the stored references
InMemoryGetAll(st) == {st[k] : k \in DOMAIN st}

\* part3's update loop: setattr for every key of data
SetAllAttrs(obj, data) ==
    [k \in DOMAIN obj \cup DOMAIN data |-> IF k \in DOMAIN data THEN data[k] ELSE obj[k]]

\* InMemoryRepository.update: the objects after the call (part2 calls
\* obj.update(data), part3 assigns every key)
InMemoryUpdate(part, st, objs, key, data, t) ==
    IF key \notin DOMAIN st THEN objs
    ELSE [objs EXCEPT ![st[key]] =
              IF part = 2 THEN BaseModelUpdate(@, data, t) ELSE SetAllAttrs(@, data)]

\* what update returns: part3 returns the object or None, part2 returns nothing
InMemoryUpdateReturns(part, st, key) ==
    IF part = 3 /\ key \in DOMAIN st THEN "obj" ELSE "None"

\* InMemoryRepository.delete: the storage after the call
InMemoryDelete(st, key) == [k \in DOMAIN st \ {key} |-> st[k]]

\* what delete returns: part3 returns a boolean, part2 returns nothing
InMemoryDeleteReturns(part, st, key) ==
    IF part = 2 THEN "None" ELSE IF key \in DOMAIN st THEN "True" ELSE "False"

InitRepository ==
    /\ users = <<>>
    /\ places = <<>>
    /\ reviews = <<>>
    /\ reviewSeq = 0
    /\ amenities = <<>>
    /\ tokens = {}
    /\ deleted = {}
    /\ last = Request("none", NoToken, 0, 0, "")
    /\ clock = 0
    /\ inflight = <<>>
    /\ \E part \in {2, 3} :
           repo = [part |-> part,
                   objects |-> [r \in 1..MaxObjects |-> MemAmenity(r, <<"a">>, 0)],
                   storage |-> <<>>, added |-> <<>>]

\* repository.add(obj)
RepoAdd ==
    \E ref \in DOMAIN repo.objects :
        /\ repo' = [repo EXCEPT !.storage = InMemoryAdd(@, repo.objects, ref),
                                !.added = Extend(@, repo.objects[ref].id, ref)]
        /\ last' = Request("repo_add", NoToken, repo.objects[ref].id, 0, "None")
        /\ UNCHANGED <<inflight, clock, users, places, reviews, reviewSeq, amenities, tokens, deleted>>

\* repository.update(obj_id, data)
RepoUpdate ==
    \E key \in RepoKeys : \E data \in RepoUpdateDicts :
        /\ repo' = [repo EXCEPT !.objects =
                        InMemoryUpdate(repo.part, repo.storage, @, key, data, clock)]
        /\ last' = Request("repo_update", NoToken, key, 0,
                           InMemoryUpdateReturns(repo.part, repo.storage, key))
        /\ UNCHANGED <<inflight, clock, users, places, reviews, reviewSeq, amenities, tokens, deleted>>

\* repository.delete(obj_id)
RepoDelete ==
    \E key \in RepoKeys :
        /\ repo' = [repo EXCEPT !.storage = InMemoryDelete(@, key),
                                !.added = [k \in DOMAIN @ \ {key} |-> @[k]]]
        /\ last' = Request("repo_delete", NoToken, key, 0,
                           InMemoryDeleteReturns(repo.part, repo.storage, key))
        /\ UNCHANGED <<inflight, clock, users, places, reviews, reviewSeq, amenities, tokens, deleted>>

NextRepository ==
    \/ RepoAdd
    \/ RepoUpdate
    \/ RepoDelete

SpecRepository == InitRepository /\ [][NextRepository]_vars

\* ================================================================ properties
\* ------------------------------------------------------------------------ C1
\* C1: for every existing place and every token that is not admin and whose
\* identity is not the place's owner, PUT /places/<id> answers 403
\* 'Unauthorized action' and leaves the places table as it was, for every
\* request body (the endpoint does not validate the body).
PlaceOwnershipRule ==
    \A tok \in tokens : \A place_id \in DOMAIN places :
        \A data \in PlacePayloads \cup {NoPayload} :
            (~tok.is_admin /\ tok.identity # places[place_id].owner_id) =>
                LET r == PlaceResource_put(tok, place_id, data)
                IN  /\ r.status = 403
                    /\ r.msg = "Unauthorized action"
                    /\ r.places = places

\* a regular user was refused the update of somebody else's place
PlaceOwnershipRefusal ==
    /\ last.op = "put_place"
    /\ last.status = 403
    /\ last.target \in DOMAIN places
    /\ ~last.tok.is_admin
    /\ places[last.target].owner_id # last.tok.identity

\* ------------------------------------------------------------------------ C2
\* a body carrying valid title, description, price, latitude and longitude
ValidPlaceUpdate(data) ==
    /\ {"title", "description", "price", "latitude", "longitude"} \subseteq DOMAIN data
    /\ ValidateTitleOk(data.title)
    /\ ValidatePriceOk(data.price)
    /\ ValidateLatitudeOk(data.latitude)
    /\ ValidateLongitudeOk(data.longitude)

\* C2: an admin token can modify any existing place: PUT /places/<id> with
\* valid title/description/price/latitude/longitude answers 200 and the place
\* read afterwards carries the new values.
AdminPlaceUpdateSucceeds ==
    \A tok \in tokens : \A place_id \in DOMAIN places : \A data \in PlacePayloads :
        (tok.is_admin /\ ValidPlaceUpdate(data)) =>
            LET r == PlaceResource_put(tok, place_id, data)
            IN  /\ r.status = 200
                /\ r.places[place_id] =
                       PlaceAssign(places[place_id], Without(data, "owner_id"))

\* ------------------------------------------------------------------------ C3
\* C3: no stored review is written by the owner of the place it reviews; a
\* POST /reviews by the owner of the target place answers 400 and inserts
\* nothing, with 'You cannot review your own place' when the body passed
\* the endpoint's validation.
NoSelfReview ==
    /\ \A i \in DOMAIN reviews :
           reviews[i].place_id \in DOMAIN places
           /\ reviews[i].user_id # places[reviews[i].place_id].owner_id
    /\ \A tok \in tokens : \A data \in ReviewPayloads :
           (Has(data, "place_id") /\ data.place_id \in DOMAIN places
              /\ places[data.place_id].owner_id = tok.identity) =>
               LET r == ReviewList_post(tok, data)
               IN  /\ r.status = 400
                   /\ r.reviews = reviews
                   /\ PayloadValid(data, review_model) =>
                          r.msg = "You cannot review your own place"

\* an owner tried to review the own place while reviews by others exist
SelfReviewRefusal ==
    /\ last.op = "post_review"
    /\ last.status = 400
    /\ last.msg = "You cannot review your own place"
    /\ places[last.target].owner_id = last.tok.identity
    /\ reviews # <<>>

\* ------------------------------------------------------------------------ C4
\* C4: there is at most one stored review per (user_id, place_id); a POST
\* /reviews by a user who already reviewed the place answers 400 and inserts
\* nothing, with 'You have already reviewed this place' when the body passed
\* the endpoint's validation.
OneReviewPerUserAndPlace ==
    /\ \A i \in DOMAIN reviews : \A j \in DOMAIN reviews :
           (reviews[i].user_id = reviews[j].user_id
              /\ reviews[i].place_id = reviews[j].place_id) => i = j
    /\ \A tok \in tokens : \A data \in ReviewPayloads :
           (Has(data, "place_id")
              /\ \E i \in DOMAIN reviews : /\ reviews[i].user_id = tok.identity
                                           /\ reviews[i].place_id = data.place_id) =>
               LET r == ReviewList_post(tok, data)
               IN  /\ r.status = 400
                   /\ r.reviews = reviews
                   /\ PayloadValid(data, review_model) =>
                          r.msg = "You have already reviewed this place"

\* a second review of the same place by the same user was refused
SecondReviewRefusal ==
    /\ last.op = "post_review"
    /\ last.status = 400
    /\ last.msg = "You have already reviewed this place"
    /\ \E i \in DOMAIN reviews : /\ reviews[i].user_id = last.tok.identity
                                 /\ reviews[i].place_id = last.target

\* ------------------------------------------------------------------------ C5
\* C5: for every existing review and every token that is not admin and whose
\* identity is not the review's author, PUT /reviews/<id> and DELETE
\* /reviews/<id> answer 403 'Unauthorized action' and the review stays, with
\* its text and rating as they were.
ReviewAuthorshipRule ==
    \A tok \in tokens : \A review_id \in DOMAIN reviews :
        (~tok.is_admin /\ tok.identity # reviews[review_id].user_id) =>
            /\ \A data \in ReviewUpdates \cup {NoPayload} :
                   LET r == ReviewResource_put(tok, review_id, data)
                   IN  /\ r.status = 403
                       /\ r.msg = "Unauthorized action"
                       /\ r.reviews = reviews
            /\ LET r == ReviewResource_delete(tok, review_id)
               IN  /\ r.status = 403
                   /\ r.msg = "Unauthorized action"
                   /\ r.reviews = reviews

\* a regular user was refused the deletion of somebody else's review
ReviewAuthorshipRefusal ==
    /\ last.op = "delete_review"
    /\ last.status = 403
    /\ last.target \in DOMAIN reviews
    /\ ~last.tok.is_admin
    /\ reviews[last.target].user_id # last.tok.identity

\* ------------------------------------------------------------------------ C6
\* C6: DELETE /reviews/<id> with an admin token on an existing review written
\* by another user answers 200 'Review deleted successfully' and removes the
\* row; every review whose DELETE answered 200 is from then on unknown to
\* GET /reviews/<id> (404) and absent from GET /reviews and from every
\* place's review list.
AdminDeletesAnyReview ==
    /\ \A tok \in tokens : \A review_id \in DOMAIN reviews :
           (tok.is_admin /\ reviews[review_id].user_id # tok.identity) =>
               LET r == ReviewResource_delete(tok, review_id)
               IN  /\ r.status = 200
                   /\ r.msg = "Review deleted successfully"
                   /\ review_id \notin DOMAIN r.reviews
    /\ \A review_id \in deleted :
           /\ ReviewResource_get(review_id).status = 404
           /\ review_id \notin ReviewList_get
           /\ \A place_id \in DOMAIN places :
                  review_id \notin PlaceReviewList_get(place_id).ids

\* an admin deleted a review that another user had written
AdminDeletedOthersReview ==
    /\ last.op = "delete_review"
    /\ last.status = 200
    /\ last.msg = "Review deleted successfully"
    /\ last.tok.is_admin
    /\ last.author \notin {0, last.tok.identity}
    /\ last.target \in deleted
    /\ last.target \notin DOMAIN reviews

\* ------------------------------------------------------------------------ C7
\* C7: PUT /users/<user_id> with a token that is not admin and whose identity
\* is not user_id leaves the users table as it was, whether or not user_id
\* names a stored user, and answers 403 'Unauthorized action' when the body
\* passed the endpoint's validation.
UserProfileOwnership ==
    \A tok \in tokens : \A user_id \in UserIds :
        \A data \in UserPayloads \cup ProfilePayloads :
            (~tok.is_admin /\ tok.identity # user_id) =>
                LET r == UserResource_put(tok, user_id, data)
                IN  /\ r.users = users
                    /\ PayloadValid(data, user_model) =>
                           r.status = 403 /\ r.msg = "Unauthorized action"

\* a regular user was refused the update of another stored user
UserProfileRefusal ==
    /\ last.op = "put_user"
    /\ last.status = 403
    /\ last.msg = "Unauthorized action"
    /\ ~last.tok.is_admin
    /\ last.target # last.tok.identity
    /\ last.target \in DOMAIN users

OwnProfileUpdatePossible ==
    \A tok \in tokens :
        (~tok.is_admin /\ tok.identity \in DOMAIN users) =>
            \E data \in UserPayloads \cup ProfilePayloads :
                LET r == UserResource_put(tok, tok.identity, data)
                IN  /\ PayloadValid(data, user_model)
                    /\ r.status = 200
                    /\ r.users[tok.identity].first_name # users[tok.identity].first_name
                    /\ r.users[tok.identity].last_name # users[tok.identity].last_name

\* ----------------------------------------------------------------------- C10
\* C10 as stated: POST /users with a token whose is_admin claim is false
\* answers 403 'Admin privileges required' and leaves the stored users as
\* they were, for every body.
AdminOnlyUserCreationAnyPayload ==
    \A tok \in tokens : \A data \in UserPayloads \cup ProfilePayloads :
        ~tok.is_admin =>
            LET r == UserList_post(tok, data)
            IN  /\ r.status = 403
                /\ r.msg = "Admin privileges required"
                /\ r.users = users

\* C10 amended: POST /users with a token whose is_admin claim is false leaves
\* the stored users as they were for every body; it answers 403 'Admin
\* privileges required' for every body that passes the endpoint's validation
\* and 400 'Input payload validation failed' for every other body.
AdminOnlyUserCreation ==
    \A tok \in tokens : \A data \in UserPayloads \cup ProfilePayloads :
        ~tok.is_admin =>
            LET r == UserList_post(tok, data)
            IN  /\ r.users = users
                /\ PayloadValid(data, user_model) =>
                       r.status = 403 /\ r.msg = "Admin privileges required"
                /\ ~PayloadValid(data, user_model) =>
                       r.status = 400 /\ r.msg = ValidationFailed

\* a regular user was refused the creation of a user
UserCreationRefusal ==
    /\ last.op = "post_user"
    /\ last.status = 403
    /\ last.msg = "Admin privileges required"
    /\ ~last.tok.is_admin
    /\ last.tok.identity \in DOMAIN users

\* ----------------------------------------------------------------------- C11
\* C11: POST /amenities and PUT /amenities/<id> with a token whose is_admin
\* claim is false leave the amenities table as it was and answer 403 'Admin
\* privileges required' (POST: when the body passed the endpoint's
\* validation; PUT: for every body and every id).
AdminOnlyAmenityMutation ==
    \A tok \in tokens : ~tok.is_admin =>
        /\ \A data \in AmenityPayloads :
               LET r == AmenityList_post(tok, data)
               IN  /\ r.amenities = amenities
                   /\ PayloadValid(data, amenity_model) =>
                          r.status = 403 /\ r.msg = "Admin privileges required"
        /\ \A amenity_id \in AmenityIds : \A data \in AmenityPayloads :
               LET r == AmenityResource_put(tok, amenity_id, data)
               IN  /\ r.amenities = amenities
                   /\ r.status = 403
                   /\ r.msg = "Admin privileges required"

\* a regular user was refused the renaming of a stored amenity
AmenityMutationRefusal ==
    /\ last.op = "put_amenity"
    /\ last.status = 403
    /\ last.msg = "Admin privileges required"
    /\ ~last.tok.is_admin
    /\ last.target \in DOMAIN amenities

\* ----------------------------------------------------------------------- C12
\* C12: POST /auth/login answers 401 'Invalid credentials' when the facade
\* finds no user for the email or the password does not verify against the
\* stored value; otherwise it answers 200 with a token whose identity is the
\* user's id and whose is_admin claim is the stored is_admin.
LoginAnswers ==
    \A email \in LoginEmails : \A password \in LoginPasswords :
        LET found == FacadeGetUserByEmail(users, email)
            r     == Login_post(email, password)
        IN  IF found = {}
               \/ \A i \in found : VerifyPassword(users[i].password, password) # "match"
            THEN r.status = 401 /\ r.msg = "Invalid credentials" /\ r.token = {}
            ELSE /\ r.status = 200
                 /\ \E i \in found :
                        r.token = {[identity |-> i, is_admin |-> users[i].is_admin]}

\* ----------------------------------------------------------------------- C13
\* C13: every successful POST /places stores one new place whose owner_id is
\* the identity of the token, whatever owner_id the body carries.
PlaceOwnerIsTokenIdentity ==
    \A tok \in tokens : \A data \in PlacePayloads : \A owner \in UserIds \cup {0} :
        LET body == IF Has(data, "owner_id")
                    THEN [data EXCEPT !["owner_id"] = owner] ELSE data
            r    == PlaceList_post(tok, body)
        IN  r.status = 201 =>
                /\ DOMAIN r.places = DOMAIN places \cup {NewPlaceId(places)}
                /\ NewPlaceId(places) \notin DOMAIN places
                /\ r.places[NewPlaceId(places)].owner_id = tok.identity
                /\ \A i \in DOMAIN places : r.places[i] = places[i]

\* a place was created by a user whom no body with valid fields names as owner
PlaceCreatedForTokenHolder ==
    /\ last.op = "post_place"
    /\ last.status = 201
    /\ \E i \in DOMAIN places : places[i].owner_id = last.tok.identity
    /\ \A data \in PlacePayloads :
           (PayloadValid(data, place_model) /\ ValidPlaceUpdate(data)) =>
               data.owner_id # last.tok.identity

\* ----------------------------------------------------------------------- C14
\* C14: no two stored users have the same email address when addresses are
\* compared the way the facade looks them up (trimmed and lower-cased).
NormalisedEmailUnique ==
    \A i \in DOMAIN users : \A j \in DOMAIN users :
        i # j => Lower(Strip(users[i].email)) # Lower(Strip(users[j].email))

\* ----------------------------------------------------------------------- C15
\* C15 as stated: for every password p of at least 6 characters a newly
\* constructed User stores a value different from p, verify_password(p) is
\* True and verify_password(q) is False for every q different from p; a
\* password shorter than 6 characters makes construction raise ValueError.
PasswordHashedForEveryPassword ==
    /\ last.op = "new_user" =>
           LET p == PasswordInputs[last.target]
           IN  IF Len(p) < MinPasswordLen
               THEN last.status = 400 /\ users = <<>>
               ELSE /\ last.status = 201
                    /\ users # <<>>
                    /\ users[1].password # RawPassword(p)
                    /\ \A refuses \in BOOLEAN :
                        /\ CheckPassword(users[1].password, p, refuses) = "match"
                        /\ \A j \in DOMAIN PasswordInputs :
                               PasswordInputs[j] # p =>
                                   CheckPassword(users[1].password, PasswordInputs[j],
                                                 refuses) = "mismatch"
    /\ last.op = "verify_password" => last.msg \in {"match", "mismatch"}

\* The part of C15 that the code keeps: for every password p of 6 to 72
\* bytes and every q different from p of at most 72 bytes the stored value is
\* not p, p verifies and q does not; a password shorter than 6 characters
\* makes construction raise ValueError and no user exists.
PasswordHashedOnCreation ==
    /\ last.op = "new_user" =>
           LET p == PasswordInputs[last.target]
           IN  IF Len(p) < MinPasswordLen
               THEN last.status = 400 /\ users = <<>>
               ELSE Len(p) <= BcryptMaxBytes =>
                    /\ last.status = 201
                    /\ users # <<>>
                    /\ users[1].password # RawPassword(p)
                    /\ \A refuses \in BOOLEAN :
                        /\ CheckPassword(users[1].password, p, refuses) = "match"
                        /\ \A j \in DOMAIN PasswordInputs :
                               (PasswordInputs[j] # p
                                  /\ Len(PasswordInputs[j]) <= BcryptMaxBytes) =>
                                   CheckPassword(users[1].password, PasswordInputs[j],
                                                 refuses) = "mismatch"
    /\ (last.op = "verify_password"
          /\ Len(users[1].password.text) < BcryptMaxBytes
          /\ Len(PasswordInputs[last.target]) <= BcryptMaxBytes) =>
           /\ users[1].password.hashed
           /\ last.msg = IF PasswordInputs[last.target] = users[1].password.text
                         THEN "match" ELSE "mismatch"

\* a user built with a password of 6 to 72 bytes refused another password
WrongPasswordRefused ==
    /\ last.op = "verify_password"
    /\ last.msg = "mismatch"
    /\ users # <<>>
    /\ users[1].password.hashed
    /\ Len(users[1].password.text) >= MinPasswordLen
    /\ Len(users[1].password.text) < BcryptMaxBytes
    /\ Len(PasswordInputs[last.target]) <= BcryptMaxBytes
    /\ PasswordInputs[last.target] # users[1].password.text

\* ----------------------------------------------------------------------- C16
\* the users table with every stored password replaced by one fixed value:
\* two tables that differ only in the stored passwords have the same image
WithoutPasswords(us) == [i \in DOMAIN us |-> [us[i] EXCEPT !.password = RawPassword(<<>>)]]

\* C16: for every stored user and each of GET /users, GET /users/<id>,
\* POST /users and PUT /users/<id>, the response body has no 'password' key,
\* and the responses are those of the table without its passwords, so that
\* two states that differ only in the stored passwords get identical
\* responses to these requests.
PasswordsNeverDisclosed ==
    /\ UserList_getOn(users) = UserList_getOn(WithoutPasswords(users))
    /\ \A i \in DOMAIN users : "password" \notin DOMAIN UserList_getOn(users).body[i]
    /\ \A user_id \in UserIds :
           /\ "password" \notin DOMAIN UserResource_getOn(users, user_id).body
           /\ UserResource_getOn(users, user_id)
                  = UserResource_getOn(WithoutPasswords(users), user_id)
    /\ \A tok \in tokens : \A data \in UserPayloads :
           /\ "password" \notin DOMAIN UserList_postAnswer(users, tok, data).body
           /\ UserList_postAnswer(users, tok, data)
                  = UserList_postAnswer(WithoutPasswords(users), tok, data)
           /\ \A user_id \in UserIds :
                  /\ "password" \notin DOMAIN UserResource_putAnswer(users, tok, user_id, data).body
                  /\ UserResource_putAnswer(users, tok, user_id, data)
                         = UserResource_putAnswer(WithoutPasswords(users), tok, user_id, data)

\* PUT /users/<id> answered 200 with the user while two users are stored and
\* the row's password column holds the password as it was sent
UserReturnedWithoutPassword ==
    /\ last.op = "put_user"
    /\ last.status = 200
    /\ Cardinality(DOMAIN users) >= 2
    /\ ~users[last.target].password.hashed
    /\ \E data \in UserPayloads :
           /\ UserResource_putAnswer(users, last.tok, last.target, data).status = 200
           /\ UserResource_putAnswer(users, last.tok, last.target, data).body.id = last.target

\* ----------------------------------------------------------------------- C17
\* C17: (part2) after any sequence of create_amenity and update_amenity no two
\* stored amenities have names that are equal once surrounding whitespace is
\* stripped and case is ignored, and a create or update answered without
\* error left no such pair.
MemAmenityNamesUnique ==
    \A i \in DOMAIN amenities : \A j \in DOMAIN amenities :
        i # j => Lower(Strip(amenities[i].name)) # Lower(Strip(amenities[j].name))

\* ----------------------------------------------------------------------- C19
\* C19: (part2) after any sequence of POST /reviews and PUT /reviews/<id>
\* every stored review has an integer rating between 1 and 5.
MemRatingInRange ==
    \A i \in DOMAIN reviews :
        /\ reviews[i].rating \in Int
        /\ reviews[i].rating >= MinRating
        /\ reviews[i].rating <= MaxRating

\* ----------------------------------------------------------------------- C18
\* C18: (part4/5) PUT /amenities/<id> with an is_admin token on an existing
\* amenity and a valid name not used by another amenity returns 200, the
\* amenity carries the new name, and a later GET /amenities/<id> returns it.
AdminAmenityUpdateSucceeds ==
    /\ \A tok \in tokens : \A amenity_id \in DOMAIN amenities : \A data \in AmenityPayloads :
           (/\ tok.is_admin
            /\ Has(data, "name")
            /\ ValidateAmenityNameOk(data.name)
            /\ RepoGetAmenityByName(amenities, Strip(data.name)) \ {amenity_id} = {})
           => /\ AmenityResource_put(tok, amenity_id, data).status = 200
              /\ AmenityResource_put(tok, amenity_id, data).amenities[amenity_id].name
                     = Strip(data.name)
    /\ (last.op = "put_amenity" /\ last.status = 200) =>
           /\ AmenityResource_get(last.target).status = 200
           /\ \E data \in AmenityPayloads :
                  /\ Has(data, "name")
                  /\ AmenityResource_get(last.target).body.name = Strip(data.name)

\* ----------------------------------------------------------------------- C20
\* C20: (part2) BaseModel.update(data) changes exactly the attributes named in
\* data that already exist on the object: every other attribute keeps its
\* value, keys that are not existing attributes are ignored (no attribute is
\* added), and updated_at is refreshed to a time not earlier than its
\* previous value.
UpdateFrameAndEffect ==
    \A data \in UpdateDicts :
        LET obj == users[1]
            new == BaseModelUpdate(obj, data, clock)
        IN  /\ \A k \in DOMAIN obj \ {"updated_at"} :
                   new[k] = IF k \in DOMAIN data THEN data[k] ELSE obj[k]
            /\ \A k \in DOMAIN data : ~HasAttr(obj, k) => k \notin DOMAIN new
            /\ DOMAIN new \cup MethodNames = DOMAIN obj \cup MethodNames
            /\ ~BaseModelUpdateRaises(obj, data)
            /\ new.updated_at = clock
            /\ new.updated_at >= obj.updated_at

\* ----------------------------------------------------------------------- C21
\* get(id) is the object last added under id and not deleted since, None
\* otherwise; get_all holds exactly the objects some get returns
RepositoryAnswers ==
    /\ \A key \in RepoKeys :
           InMemoryGet(repo.storage, key)
               = IF key \in DOMAIN repo.added THEN repo.added[key] ELSE None
    /\ InMemoryGetAll(repo.storage)
           = {InMemoryGet(repo.storage, key) : key \in RepoKeys} \ {None}

\* update or delete of an absent id changes nothing; in part3 delete returns
\* False and update returns None
AbsentKeyStep ==
    (last'.op \in {"repo_update", "repo_delete"} /\ last'.target \notin DOMAIN repo.storage)
    => /\ repo' = repo
       /\ repo.part = 3 =>
              last'.msg = IF last'.op = "repo_delete" THEN "False" ELSE "None"

\* C21: the InMemoryRepository behaves as a map from id to object: after any
\* sequence of add, update and delete, get(id) returns the last object added
\* under id if it was not deleted since and None otherwise, get_all returns
\* exactly the objects for which get is not None, and delete or update of an
\* absent id changes nothing (delete returning False, update None in part3).
RepositoryIsMap == RepositoryAnswers /\ [][RepositoryAnswers' /\ AbsentKeyStep]_vars

\* part3: delete of an absent id answered False while another id holds an
\* object that update has changed
AbsentDeleteAnswered ==
    /\ last.op = "repo_delete"
    /\ last.msg = "False"
    /\ repo.part = 3
    /\ \E key \in DOMAIN repo.storage :
           /\ key # last.target
           /\ repo.objects[repo.storage[key]].name = <<"x">>

\* ----------------------------------------------------------------------- C29
\* C29: after any sequence of add, update and delete on an
\* InMemoryRepository every stored object is filed under its own id, so
\* get(obj.id) returns obj for every object of get_all.
StoredUnderOwnId ==
    /\ \A key \in DOMAIN repo.storage : repo.objects[repo.storage[key]].id = key
    /\ \A ref \in InMemoryGetAll(repo.storage) :
           InMemoryGet(repo.storage, repo.objects[ref].id) = ref

\* ----------------------------------------------------------------------- C22
\* C22: no PUT /places/<id> request (owner or admin) changes the place's
\* owner_id and no PUT /reviews/<id> request changes the review's user_id or
\* place_id, even when the body carries other values for those fields.
OwnershipFieldsImmutable ==
    /\ \A tok \in tokens : \A place_id \in PlaceIds : \A data \in PlacePayloads :
           LET r == PlaceResource_put(tok, place_id, data)
           IN  /\ DOMAIN r.places = DOMAIN places
               /\ \A i \in DOMAIN places : r.places[i].owner_id = places[i].owner_id
               /\ place_id \in DOMAIN places =>
                      PlaceAssign(places[place_id], Without(data, "owner_id")).owner_id
                          = places[place_id].owner_id
    /\ \A tok \in tokens : \A review_id \in ReviewIds : \A data \in ReviewUpdates :
           LET r == ReviewResource_put(tok, review_id, data)
           IN  /\ DOMAIN r.reviews = DOMAIN reviews
               /\ \A i \in DOMAIN reviews :
                      /\ r.reviews[i].user_id = reviews[i].user_id
                      /\ r.reviews[i].place_id = reviews[i].place_id

\* a PUT /places/<id> that passed the ownership test was answered while some
\* request body names another owner than the place has, and a review is stored
\* whose user_id and place_id differ from those a PUT body carries
OwnerKeptAfterPut ==
    /\ last.op = "put_place"
    /\ last.status \notin {403, 404}
    /\ last.target \in DOMAIN places
    /\ \E data \in PlacePayloads :
           Has(data, "owner_id") /\ data.owner_id # places[last.target].owner_id
    /\ \E i \in DOMAIN reviews : \E data \in ReviewUpdates :
           /\ Has(data, "user_id") /\ data.user_id # reviews[i].user_id
           /\ Has(data, "place_id") /\ data.place_id # reviews[i].place_id

\* ----------------------------------------------------------------------- C23
\* C23: after an update_user call whose data contains 'password' = p (an
\* admin PUT /users/<id>) the stored password is a hash different from p,
\* verify_password(p) returns True and the user can log in with p.
PasswordHashedOnUpdate ==
    \A tok \in tokens : \A user_id \in UserIds : \A data \in UserPayloads :
        LET r == UserResource_put(tok, user_id, data)
        IN  (r.status = 200 /\ Has(data, "password")) =>
                /\ r.users[user_id].password.hashed
                /\ r.users[user_id].password # RawPassword(data.password)
                /\ VerifyPassword(r.users[user_id].password, data.password) = "match"

\* ----------------------------------------------------------------------- C24
\* C24: (part2) after any sequence of POST /users and PUT /users/<id> no two
\* stored users have the same stored email value; a POST /users with an
\* email that is already registered is answered 400 and creates no user.
MemStoredEmailsUnique ==
    \A i \in DOMAIN users : \A j \in DOMAIN users :
        i # j => users[i].email # users[j].email

\* ----------------------------------------------------------------------- C25
\* C25: (part2) after any sequence of create_review and delete_review a
\* review is in review_repo if and only if it is in the reviews list of its
\* place, each review appears at most once in that list, and delete_review
\* of an unknown id raises 'Review not found' and changes nothing.
ReviewBookkeepingConsistent ==
    /\ \A i \in DOMAIN reviews :
           /\ reviews[i].place \in DOMAIN places
           /\ \E k \in DOMAIN places[reviews[i].place].reviews :
                  places[reviews[i].place].reviews[k] = i
    /\ \A p \in DOMAIN places : \A k \in DOMAIN places[p].reviews :
           /\ places[p].reviews[k] \in DOMAIN reviews
           /\ reviews[places[p].reviews[k]].place = p
           /\ \A j \in DOMAIN places[p].reviews :
                  places[p].reviews[j] = places[p].reviews[k] => j = k
    /\ \A review_id \in ReviewIds \ DOMAIN reviews :
           MemDeleteReview(reviews, places, review_id)
               = [err |-> "Review not found", reviews |-> reviews, places |-> places]

\* a review was deleted while another one stays stored and listed
ReviewDeletedOtherKept ==
    /\ last.op = "delete_review"
    /\ last.status = 200
    /\ last.target \notin DOMAIN reviews
    /\ \E i \in DOMAIN reviews : places[reviews[i].place].reviews = <<i>>

\* ----------------------------------------------------------------------- C26
\* C26: when two POST /reviews requests of the same user for the same place
\* are served concurrently, at most one of them creates a review.
OneCreationPerUserAndPlace ==
    \A j, k \in DOMAIN inflight :
        (/\ inflight[j].status = 201
         /\ inflight[k].status = 201
         /\ inflight[j].tok.identity = inflight[k].tok.identity
         /\ inflight[j].data.place_id = inflight[k].data.place_id) => j = k

\* ----------------------------------------------------------------------- C27
\* C27: an admin-only operation succeeds only for a request made on behalf
\* of a user whose stored is_admin flag is true at the time of the request;
\* after update_user set the flag to False, a token issued to that user
\* earlier no longer grants admin privileges (here: POST /users).
AdminRightsFollowStoredFlag ==
    \A tok \in tokens : \A data \in UserPayloads :
        UserList_post(tok, data).status = 201 =>
            tok.identity \in DOMAIN users /\ users[tok.identity].is_admin

\* ----------------------------------------------------------------------- C28
\* C28: no request that carries a token whose is_admin claim is false changes
\* the is_admin flag of a stored user or creates a user whose is_admin is
\* true: POST /users and PUT /users/<id>, the two requests that write the
\* users table, leave every flag as it was and add no user, for every body.
FlagsAfter(r) ==
    /\ DOMAIN r.users = DOMAIN users
    /\ \A i \in DOMAIN users : r.users[i].is_admin = users[i].is_admin

NoPrivilegeEscalation ==
    \A tok \in tokens : ~tok.is_admin =>
        /\ \A data \in UserPayloads \cup ProfilePayloads \cup FlagPayloads :
               FlagsAfter(UserList_post(tok, data))
        /\ \A user_id \in UserIds :
               \A data \in UserPayloads \cup ProfilePayloads \cup FlagPayloads :
                   FlagsAfter(UserResource_put(tok, user_id, data))

\* a regular user asked for the admin flag on their own account and was refused
PromotionRefused ==
    /\ last.op = "put_user"
    /\ last.status = 400
    /\ ~last.tok.is_admin
    /\ last.tok.identity = last.target
    /\ last.target \in DOMAIN users
    /\ ~users[last.target].is_admin
    /\ \E data \in FlagPayloads :
           /\ Has(data, "is_admin") /\ data.is_admin
           /\ UserResource_put(last.tok, last.target, data).msg = last.msg
           /\ last.msg = "You cannot modify email or password"

\* ----------------------------------------------------------------------- C30
\* C30: (part4 facade) in every state reachable through facade operations the
\* owner_id of every stored place is the id of a stored user and the user_id
\* and place_id of every stored review are the ids of a stored user and a
\* stored place; create_place with an unknown owner raises 'Owner not found'
\* and create_review with an unknown user or place raises 'User not found' /
\* 'Place not found', and they store nothing.
ReferentialIntegrity ==
    /\ \A p \in DOMAIN places : places[p].owner_id \in DOMAIN users
    /\ \A r \in DOMAIN reviews :
           reviews[r].user_id \in DOMAIN users /\ reviews[r].place_id \in DOMAIN places
    /\ \A data \in FacadePlaceData :
           (Has(data, "owner_id") /\ data.owner_id \notin DOMAIN users) =>
               FacadeCreatePlace(users, places, data)
                   = [err |-> "Owner not found", places |-> places]
    /\ \A data \in FacadeReviewData :
           (Has(data, "user_id") /\ Has(data, "place_id")) =>
               LET c == FacadeCreateReview(users, places, reviews, reviewSeq, data)
               IN  /\ data.user_id \notin DOMAIN users =>
                       c = [err |-> "User not found", reviews |-> reviews]
                   /\ (data.user_id \in DOMAIN users /\ data.place_id \notin DOMAIN places) =>
                       c = [err |-> "Place not found", reviews |-> reviews]
====
